---------------------------- MODULE Spec2Model ----------------------------
(***************************************************************************)
(* Layered batch ETL pipeline (raw -> staging -> production) of            *)
(* week-03-04-python-etl/scripts: RawLayerETL (etl_raw.py),                *)
(* StagingLayerETL (etl_stg.py), ProdLayerETL (etl_prod.py) and ETLRunner   *)
(* (etl_runner.py) over the DatabaseConnector (db_connector.py).            *)
(*                                                                         *)
(* Conventions of the model                                                *)
(*  - a table is a sequence of rows in insertion order; a SELECT without   *)
(*    ORDER BY returns the rows in that order (the heap order of a table   *)
(*    that is only truncated and appended to);                             *)
(*  - a cell is Null (<<>>) or Some(v) (<<v>>), as pandas NaN/None or a     *)
(*    value; text cells hold tuples of one-character strings;              *)
(*  - money is counted in cents, a date is <<year, month, day>>;            *)
(*  - a partition key is the ordinal of its day: the directory names are   *)
(*    ISO dates, whose lexicographic order (sorted()) is the day order;    *)
(*  - wall-clock columns (_ingested_at, created_at, updated_at) are left   *)
(*    out: no operation reads them back;                                   *)
(*  - a call of the database or of the parquet reader can raise; an        *)
(*    operation takes the call that raises (at most one per operation) as  *)
(*    its input `fault`.                                                   *)
(***************************************************************************)
EXTENDS Integers, Sequences, FiniteSets, TLC

VARIABLES
    genDay,          \* generate_all_data: the day of date_range the loop is at
    genPc,           \* generate_all_data: the part of the loop body to run next
    all_emails,      \* generate_all_data: the e-mails tracked across the days
    all_customer_ids,     \* generate_all_data: the ids of the customers so far
    current_customer_id,  \* generate_all_data: the first id of the next day
    current_order_id,     \* generate_all_data: the first order id of the next day
    genFailed,       \* generate_all_data: an assertion of the generator failed
    genBatch,        \* generate_customers_for_day: customers, emails_used, ids used
    genLoop,         \* generate_customers_for_day: the loop it is in and its round
    files,           \* raw_data/<table>/<partition>/data.parquet
    stgForeignKeys,  \* whether the staging schema declares its foreign keys
    distinctOrder,   \* the order in which the database delivers a SELECT DISTINCT
    raw,             \* schema raw:     table -> rows
    stg,             \* schema staging: table -> rows
    prod,            \* schema prod:    table -> rows
    last,            \* the last operation called and what it returned
    pc,              \* ETLRunner: position in main / run_full_pipeline
    results,         \* ETLRunner.results: layer -> status
    started,         \* ETLRunner: the layers started so far, in order
    exitCode,        \* ETLRunner: the code main exits with (Null while running)
    args,            \* ETLRunner: the command line of the run
    dv,              \* DataValidator: df, results, and the last method called
    pv,              \* PipelineValidator: the counters, issues, and where run_all is
    twin             \* two runs of the generator side by side: streams, states, files

vars ==
    <<genDay, genPc, all_emails, all_customer_ids, current_customer_id, current_order_id,
      genFailed, genBatch, genLoop, files, stgForeignKeys, distinctOrder, raw, stg, prod,
      last, pc, results, started, exitCode, args, dv, pv, twin>>

---------------------------------------------------------------------------
(* Bounds *)

\* partitions (days) that exist under raw_data
NumDays == 2
\* rows a raw table may hold before the model stops appending to it
MaxRawRows == 4

Keys == 1 .. NumDays

---------------------------------------------------------------------------
(* Cells *)

Null == <<>>
Some(v) == <<v>>
IsNull(x) == x = <<>>
Val(x) == x[1]

RECURSIVE SeqToSet(_)
SeqToSet(s) == IF s = <<>> THEN {} ELSE {Head(s)} \cup SeqToSet(Tail(s))

RECURSIVE SortedSeq(_)
SortedSeq(S) ==
    IF S = {} THEN <<>>
    ELSE LET m == CHOOSE x \in S : \A y \in S : x <= y
         IN  <<m>> \o SortedSeq(S \ {m})

RECURSIVE Filter(_, _)
\* the rows of s at which keep (a sequence of booleans of the same length) holds
Filter(s, keep) ==
    IF s = <<>> THEN <<>>
    ELSE (IF Head(keep) THEN <<Head(s)>> ELSE <<>>) \o Filter(Tail(s), Tail(keep))

---------------------------------------------------------------------------
(* Rows.  The business columns of the four entities, as the generator      *)
(* writes them and the staging queries select them.                         *)

Tables == <<"customers", "products", "orders", "order_items">>
TableSet == {"customers", "products", "orders", "order_items"}

Customer(id, name, email, country, signup, segment) ==
    [customer_id |-> id, customer_name |-> name, email |-> email,
     country |-> country, signup_date |-> signup, customer_segment |-> segment]

Product(id, name, category, price, cost) ==
    [product_id |-> id, product_name |-> name, category |-> category,
     price |-> price, cost |-> cost]

Order(id, customer, date, status, total) ==
    [order_id |-> id, customer_id |-> customer, order_date |-> date,
     order_status |-> status, total_amount |-> total]

OrderItem(id, order, product, quantity, price, discount) ==
    [order_item_id |-> id, order_id |-> order, product_id |-> product,
     quantity |-> quantity, unit_price |-> price, discount_percent |-> discount]

\* the day of partition k, a date of January 2025
DayOf(k) == <<2025, 1, k>>

---------------------------------------------------------------------------
(* Partition files the model draws from.  Text is spelled out character by *)
(* character so that the cleaning functions work on it.                     *)

T_ab_co == <<"a", "@", "b", ".", "c", "o">>                 \* a@b.co
T_c_d_io == <<"c", "@", "d", ".", "i", "o">>                \* c@d.io
T_a_at_b_co == <<"a", "_", "a", "t", "_", "b", ".", "c", "o">>  \* a_at_b.co
T_al_bo == <<"a", "l", " ", "B", "O">>                      \* al BO
T_Di == <<"D", "i">>                                        \* Di
T_tv == <<"t", "v">>                                        \* tv

Cust1 == Customer(Some(1), Some(T_al_bo), Some(T_ab_co), Some("VN"), Some(DayOf(1)), Some("Basic"))
\* optional columns null
Cust2 == Customer(Some(2), Some(T_Di), Some(T_c_d_io), Null, Some(DayOf(1)), Null)
\* the generator's invalid-format defect ('@' replaced by '_at_')
Cust3 == Customer(Some(3), Some(T_Di), Some(T_a_at_b_co), Some("VN"), Some(DayOf(2)), Some("Premium"))
\* another id with the e-mail of customer 1
Cust4 == Customer(Some(4), Some(T_Di), Some(T_ab_co), Some("US"), Some(DayOf(2)), Some("Standard"))
\* null name, null e-mail
Cust5 == Customer(Some(5), Null, Some(T_c_d_io), Some("US"), Some(DayOf(2)), Some("Basic"))
Cust6 == Customer(Some(6), Some(T_Di), Null, Some("US"), Some(DayOf(2)), Some("Basic"))
\* customer 1 delivered again with another e-mail
Cust1b == Customer(Some(1), Some(T_Di), Some(T_c_d_io), Some("US"), Some(DayOf(2)), Some("Basic"))

Prod1 == Product(Some(1), Some(T_tv), Some("Electronics"), Some(10000), Some(5000))
Prod2 == Product(Some(2), Some(T_Di), Some("Books"), Some(1009), Some(500))
\* negative price
Prod3 == Product(Some(3), Some(T_tv), Some("Toys"), Some(-100), Some(50))
\* product 1 delivered again with another price
Prod1b == Product(Some(1), Some(T_tv), Some("Electronics"), Some(12000), Some(5000))

\* the generator writes round(sum of the line totals, 2) as total_amount
\* (generate_orders_for_day): order 1 has items 10 and 11, 18000 + 1009
Ord1 == Order(Some(1), Some(1), Some(DayOf(2)), Some("completed"), Some(19009))
\* order 2 has items 20 (no discount given), 21 and 22: 10000 - 5000 + 2000
Ord2 == Order(Some(2), Some(2), Some(DayOf(2)), Some("pending"), Some(7000))
\* customer 9 does not exist
Ord3 == Order(Some(3), Some(9), Some(DayOf(2)), Some("completed"), Some(2000))
\* a status outside the enumeration
Ord4 == Order(Some(4), Some(1), Some(DayOf(2)), Some("shipped"), Some(2000))
\* four orders of one item each, 1 * 10.09 at 5 per cent: 9.5855, rounded 9.59
Ord5 == Order(Some(5), Some(4), Some(DayOf(2)), Some("completed"), Some(959))
Ord6 == Order(Some(6), Some(1), Some(DayOf(2)), Some("completed"), Some(959))
Ord7 == Order(Some(7), Some(1), Some(DayOf(2)), Some("completed"), Some(959))
Ord8 == Order(Some(8), Some(4), Some(DayOf(2)), Some("completed"), Some(959))

Item10 == OrderItem(Some(10), Some(1), Some(1), Some(2), Some(10000), Some(10))
Item11 == OrderItem(Some(11), Some(1), Some(2), Some(1), Some(1009), Some(0))
\* items of order 2: null discount, discount outside [0, 100], and a good one
Item20 == OrderItem(Some(20), Some(2), Some(1), Some(1), Some(10000), Null)
Item21 == OrderItem(Some(21), Some(2), Some(1), Some(1), Some(10000), Some(150))
Item22 == OrderItem(Some(22), Some(2), Some(1), Some(1), Some(2000), Some(0))
\* order 3 is never staged
Item30 == OrderItem(Some(30), Some(3), Some(1), Some(1), Some(100), Some(0))
Item50 == OrderItem(Some(50), Some(5), Some(2), Some(1), Some(1009), Some(5))
Item60 == OrderItem(Some(60), Some(6), Some(2), Some(1), Some(1009), Some(5))
Item70 == OrderItem(Some(70), Some(7), Some(2), Some(1), Some(1009), Some(5))
Item80 == OrderItem(Some(80), Some(8), Some(2), Some(1), Some(1009), Some(5))

Missing == [state |-> "missing", rows |-> <<>>]
Corrupt == [state |-> "corrupt", rows |-> <<>>]
Parquet(rows) == [state |-> "ok", rows |-> rows]

\* one table's partitions: days 1 and 2 as given; the generator was run for
\* these two days, a later day has no partition
Days(d1, d2) == [k \in Keys |-> IF k = 1 THEN d1 ELSE IF k = 2 THEN d2 ELSE Missing]

Dataset(c, p, o, i) == [customers |-> c, products |-> p, orders |-> o, order_items |-> i]

\* a catalogue is written every day, and no orders on the first day
\* (generate_all_data)
Catalogue(first, later) == Days(Parquet(first), Parquet(later))

Datasets ==
    { \* every partition readable; customers 1 and 4 share an e-mail; four
      \* orders whose totals the generator has rounded
      Dataset(Days(Parquet(<<Cust1, Cust2>>), Parquet(<<Cust3, Cust4>>)),
              Catalogue(<<Prod1, Prod2>>, <<Prod1, Prod2>>),
              Days(Missing, Parquet(<<Ord5, Ord6, Ord7, Ord8>>)),
              Days(Missing, Parquet(<<Item50, Item60, Item70, Item80>>))),
      \* the first order_items partition cannot be read
      Dataset(Days(Parquet(<<Cust1, Cust5>>), Missing),
              Catalogue(<<Prod1, Prod2>>, <<Prod1, Prod2>>),
              Days(Missing, Parquet(<<Ord1, Ord3>>)),
              Days(Corrupt, Parquet(<<Item10, Item11>>))),
      \* defects of every kind
      Dataset(Days(Parquet(<<Cust6, Cust1>>), Parquet(<<Cust1b, Cust2>>)),
              Catalogue(<<Prod1, Prod3>>, <<Prod3, Prod1b>>),
              Days(Missing, Parquet(<<Ord3, Ord4, Ord2>>)),
              Days(Missing, Parquet(<<Item20, Item21, Item22, Item30>>))),
      \* an empty orders partition, no order items
      Dataset(Days(Parquet(<<Cust1, Cust2>>), Missing),
              Catalogue(<<Prod1, Prod2>>, <<Prod1, Prod2>>),
              Days(Missing, Parquet(<<>>)),
              Days(Missing, Missing)) }

---------------------------------------------------------------------------
(* Faults: the one call of an operation that raises.                       *)

NoFault == [kind |-> "none", table |-> "none", key |-> 0]
\* the SELECT DISTINCT _partition_date of get_ingested_dates on raw.<table>
QueryFault(t) == [kind |-> "query", table |-> t, key |-> 0]
\* the write_dataframe of partition k into raw.<table>
WriteFault(t, k) == [kind |-> "write", table |-> t, key |-> k]

RawFaults ==
    {NoFault} \cup {QueryFault(t) : t \in TableSet}
              \cup {WriteFault(t, k) : t \in TableSet, k \in Keys}

---------------------------------------------------------------------------
(* DatabaseConnector *)

\* a write that replaces the table, as to_sql(if_exists='replace') would
write_dataframe_replace(rows, df) == df

\* write_dataframe(df, table, schema, if_exists='append'): the rows of df
\* after the rows the table holds
write_dataframe(rows, df) == rows \o df

---------------------------------------------------------------------------
(* RawLayerETL *)

\* the partitions of a table: the directories that hold a data.parquet, sorted
get_partition_dates(t) ==
    SortedSeq({k \in Keys : files[t][k].state # "missing"})

\* a get_ingested_dates that reports every partition as ingested when its
\* query raises
get_ingested_dates_every(rows, queryRaises) ==
    IF queryRaises THEN Keys
    ELSE {rows[i]._partition_date : i \in 1 .. Len(rows)}

\* the partition keys present in raw.<table>; the empty set when the query raises
get_ingested_dates(rows, queryRaises) ==
    IF queryRaises THEN {}
    ELSE {rows[i]._partition_date : i \in 1 .. Len(rows)}

\* the metadata columns ingest_partition adds to a row of partition k of table t
Stamp(t, k, row) ==
    [business |-> row, _source_file |-> <<t, k>>, _partition_date |-> k]

StampAll(t, k, rows) == [i \in 1 .. Len(rows) |-> Stamp(t, k, rows[i])]

\* ingest_partition on the rows of raw.<t>: the rows afterwards, the count
\* returned, and whether it raised (in the read of the file, or in the write)
ingest_partition(rows, t, k, fault) ==
    LET f == files[t][k]
        unchanged(r) == [rows |-> rows, ret |-> 0, raised |-> r, readFailed |-> FALSE]
    IN  IF f.state = "missing" THEN unchanged(FALSE)
        ELSE IF f.state = "corrupt"
             THEN [rows |-> rows, ret |-> 0, raised |-> TRUE, readFailed |-> TRUE]
        ELSE IF f.rows = <<>> THEN unchanged(FALSE)
        ELSE IF fault = WriteFault(t, k) THEN unchanged(TRUE)
        ELSE [rows |-> write_dataframe(rows, StampAll(t, k, f.rows)),
              ret |-> Len(f.rows), raised |-> FALSE, readFailed |-> FALSE]

\* an ingest_table that never skips a partition
dates_to_process_all(rows, t, incremental, fault) == get_partition_dates(t)

\* dates_to_process of ingest_table
dates_to_process(rows, t, incremental, fault) ==
    LET all_dates == get_partition_dates(t)
        ingested_dates == get_ingested_dates(rows, fault = QueryFault(t))
    IN  IF incremental
        THEN SelectSeq(all_dates, LAMBDA d : d \notin ingested_dates)
        ELSE all_dates

RECURSIVE IngestLoop(_, _, _, _)
\* the for loop of ingest_table over the dates left, from the state acc: an
\* exception of ingest_partition leaves the loop
IngestLoop(acc, t, dates, fault) ==
    IF dates = <<>> \/ acc.raised THEN acc
    ELSE LET r == ingest_partition(acc.rows, t, Head(dates), fault)
             next == [rows |-> r.rows,
                      total_rows |-> acc.total_rows + r.ret,
                      raised |-> r.raised,
                      readFailed |-> acc.readFailed \/ r.readFailed,
                      attempted |-> Append(acc.attempted, Head(dates))]
         IN  IngestLoop(next, t, Tail(dates), fault)

\* ingest_table on the rows of raw.<t>
ingest_table(rows, t, incremental, fault) ==
    LET dates == dates_to_process(rows, t, incremental, fault)
        r == IngestLoop([rows |-> rows, total_rows |-> 0, raised |-> FALSE,
                         readFailed |-> FALSE, attempted |-> <<>>],
                        t, dates, fault)
    IN  [rows |-> r.rows, raised |-> r.raised, readFailed |-> r.readFailed,
         selected |-> dates, attempted |-> r.attempted,
         partitions_processed |-> Len(dates), total_rows |-> r.total_rows]

RECURSIVE IngestTables(_, _, _, _)
\* the loop of ingest_all over the tables left
IngestTables(acc, tables, incremental, fault) ==
    IF tables = <<>> \/ acc.raised THEN acc
    ELSE LET t == Head(tables)
             r == ingest_table(acc.raw[t], t, incremental, fault)
         IN  IngestTables([raw |-> [acc.raw EXCEPT ![t] = r.rows],
                           raised |-> r.raised,
                           done |-> Append(acc.done, t),
                           total_rows |-> acc.total_rows + r.total_rows],
                          Tail(tables), incremental, fault)

\* ingest_all on the raw schema
ingest_all(rawDb, incremental, fault) ==
    IngestTables([raw |-> rawDb, raised |-> FALSE, done |-> <<>>, total_rows |-> 0],
                 Tables, incremental, fault)

EmptySchema == [t \in TableSet |-> <<>>]

\* truncate_all: every raw table emptied
truncate_all(rawDb) == EmptySchema

---------------------------------------------------------------------------
(* Text functions of StagingLayerETL *)

LowerCase == <<"a", "b", "c", "d", "e", "f", "g", "h", "i", "j", "k", "l", "m",
               "n", "o", "p", "q", "r", "s", "t", "u", "v", "w", "x", "y", "z">>
UpperCase == <<"A", "B", "C", "D", "E", "F", "G", "H", "I", "J", "K", "L", "M",
               "N", "O", "P", "Q", "R", "S", "T", "U", "V", "W", "X", "Y", "Z">>
Letters == SeqToSet(LowerCase) \cup SeqToSet(UpperCase)
Digits == {"0", "1", "2", "3", "4", "5", "6", "7", "8", "9"}

IndexIn(c, s) == CHOOSE i \in 1 .. Len(s) : s[i] = c
ToUpper(c) == IF c \in SeqToSet(LowerCase) THEN UpperCase[IndexIn(c, LowerCase)] ELSE c
ToLower(c) == IF c \in SeqToSet(UpperCase) THEN LowerCase[IndexIn(c, UpperCase)] ELSE c

\* str.capitalize(): the first character upper-cased, the others lower-cased
Capitalize(word) ==
    [i \in 1 .. Len(word) |-> IF i = 1 THEN ToUpper(word[i]) ELSE ToLower(word[i])]

RECURSIVE Split(_, _)
\* str.split(): the maximal runs without a blank; cur is the run being read
Split(s, cur) ==
    IF s = <<>> THEN (IF cur = <<>> THEN <<>> ELSE <<cur>>)
    ELSE IF Head(s) = " "
         THEN (IF cur = <<>> THEN <<>> ELSE <<cur>>) \o Split(Tail(s), <<>>)
         ELSE Split(Tail(s), Append(cur, Head(s)))

RECURSIVE Join(_)
\* ' '.join(words)
Join(words) ==
    IF words = <<>> THEN <<>>
    ELSE IF Len(words) = 1 THEN Head(words)
    ELSE Head(words) \o <<" ">> \o Join(Tail(words))

\* _capitalize_name on a cell
_capitalize_name(name) ==
    IF IsNull(name) THEN name
    ELSE LET words == Split(Val(name), <<>>)
         IN  Some(Join([i \in 1 .. Len(words) |-> Capitalize(words[i])]))

\* ^[a-zA-Z0-9._%+-]+@[a-zA-Z0-9.-]+\.[a-zA-Z]{2,}$
EmailPattern(s) ==
    \E i \in 2 .. Len(s) : \E j \in (i + 2) .. (Len(s) - 2) :
        /\ s[i] = "@"
        /\ s[j] = "."
        /\ \A p \in 1 .. (i - 1) : s[p] \in Letters \cup Digits \cup {".", "_", "%", "+", "-"}
        /\ \A p \in (i + 1) .. (j - 1) : s[p] \in Letters \cup Digits \cup {".", "-"}
        /\ \A p \in (j + 1) .. Len(s) : s[p] \in Letters

\* _validate_email on a cell
_validate_email(email) ==
    IF IsNull(email) THEN FALSE ELSE EmailPattern(Val(email))

---------------------------------------------------------------------------
(* pandas on a table (a sequence of records) *)

\* df.drop_duplicates(subset=[col], keep='first')
drop_duplicates(df, col) ==
    Filter(df, [i \in 1 .. Len(df) |-> \A j \in 1 .. (i - 1) : df[j][col] # df[i][col]])

\* df.dropna(subset=cols)
dropna(df, cols) ==
    Filter(df, [i \in 1 .. Len(df) |-> \A c \in cols : ~IsNull(df[i][c])])

\* df[col].fillna(value)
fillna(df, col, value) ==
    [i \in 1 .. Len(df) |-> IF IsNull(df[i][col]) THEN [df[i] EXCEPT ![col] = Some(value)]
                            ELSE df[i]]

\* a comparison that lets every value pass
Le_unbounded(x, n) == ~IsNull(x)

\* comparisons of a column with a number: false on a null cell
Ge(x, n) == ~IsNull(x) /\ Val(x) >= n
Gt(x, n) == ~IsNull(x) /\ Val(x) > n
Le(x, n) == ~IsNull(x) /\ Val(x) <= n

\* the values of a column
Column(rows, col) == {rows[i][col] : i \in 1 .. Len(rows)}

\* SELECT <business columns> FROM raw.<table>
SelectBusiness(rows) == [i \in 1 .. Len(rows) |-> rows[i].business]

\* SELECT DISTINCT: each row once.  The query has no ORDER BY and the database
\* removes the duplicates by hashing or sorting, so the order of the result is
\* not the order of the table: the model lets the database deliver the
\* distinct rows in the order of their first places ("heap") or in the
\* opposite order ("hash"), the same way at every call
SelectDistinct(rows) ==
    LET once == Filter(rows, [i \in 1 .. Len(rows) |->
                                 \A j \in 1 .. (i - 1) : rows[j] # rows[i]])
    IN  IF distinctOrder = "heap" THEN once
        ELSE [i \in 1 .. Len(once) |-> once[Len(once) + 1 - i]]

---------------------------------------------------------------------------
(* StagingLayerETL.  A transform works on the database db = [raw, stg] and  *)
(* gives the staging schema afterwards, the dict returned and whether it    *)
(* raised.  fault names the call of the transform that raises: a read, or   *)
(* the truncate_table, which both leave the schema as it was and are one    *)
(* kind ("read") here, or the write_dataframe that follows the truncation.  *)

StgFault(kind, t) == [kind |-> kind, table |-> t, key |-> 0]
StgFaults ==
    {NoFault} \cup {StgFault(kind, t) : kind \in {"read", "write"}, t \in TableSet}

\* the staging tables that reference table t, directly or through another one
Referencing(t) ==
    CASE t = "customers" -> {"orders", "order_items"}
      [] t = "products" -> {"order_items"}
      [] t = "orders" -> {"order_items"}
      [] OTHER -> {}

\* a truncate_table that empties nothing
truncate_table_skipped(stgDb, t, foreignKeys) == stgDb

\* truncate_table(t, schema): TRUNCATE TABLE <schema>.<t> CASCADE empties t
\* and, where the schema declares the foreign keys, the tables that
\* reference it
truncate_table(stgDb, t, foreignKeys) ==
    [u \in DOMAIN stgDb |->
        IF u = t \/ (foreignKeys /\ u \in Referencing(t)) THEN <<>> ELSE stgDb[u]]

\* the tail of every transform: truncate, then write the cleaned rows
Load(stgDb, t, df, foreignKeys, fault, ret) ==
    LET emptied == truncate_table(stgDb, t, foreignKeys)
    IN  IF fault = StgFault("write", t)
        THEN [stg |-> emptied, raised |-> TRUE, ret |-> Null]
        ELSE [stg |-> [emptied EXCEPT ![t] = write_dataframe(emptied[t], df)],
              raised |-> FALSE, ret |-> ret]

\* what a transform gives when a read raises, and when raw holds no row
ReadRaised(stgDb) == [stg |-> stgDb, raised |-> TRUE, ret |-> Null]
NothingToDo(stgDb, t) == [stg |-> stgDb, raised |-> FALSE, ret |-> [table |-> t, rows |-> 0]]

\* the cleaned customers, and the counts transform_customers reports
CleanCustomers(df) ==
    LET deduped == drop_duplicates(df, "customer_id")
        named == [i \in 1 .. Len(deduped) |->
                    [deduped[i] EXCEPT !.customer_name = _capitalize_name(@)]]
        valid == Filter(named, [i \in 1 .. Len(named) |-> _validate_email(named[i].email)])
        complete == dropna(valid, {"customer_id", "customer_name", "email", "signup_date"})
        filled == fillna(fillna(complete, "country", "Unknown"), "customer_segment", "Standard")
    IN  [rows |-> filled,
         dups_removed |-> Len(df) - Len(deduped),
         invalid_emails |-> Len(named) - Len(valid),
         nulls_removed |-> Len(df) - (Len(df) - Len(deduped)) - Len(complete)]

transform_customers(db, foreignKeys, fault) ==
    LET df == SelectBusiness(db.raw["customers"])
        c == CleanCustomers(df)
    IN  IF fault = StgFault("read", "customers") THEN ReadRaised(db.stg)
        ELSE IF df = <<>> THEN NothingToDo(db.stg, "customers")
        ELSE Load(db.stg, "customers", c.rows, foreignKeys, fault,
                  [table |-> "customers", rows |-> Len(c.rows),
                   dups_removed |-> c.dups_removed, nulls_removed |-> c.nulls_removed])

CleanProducts(df) ==
    LET deduped == drop_duplicates(df, "product_id")
        named == [i \in 1 .. Len(deduped) |->
                    [deduped[i] EXCEPT !.product_name = _capitalize_name(@)]]
        positive == Filter(named, [i \in 1 .. Len(named) |->
                        Ge(named[i].price, 0) /\ Ge(named[i].cost, 0)])
    IN  dropna(positive, {"product_id", "product_name", "category", "price", "cost"})

transform_products(db, foreignKeys, fault) ==
    LET df == SelectDistinct(SelectBusiness(db.raw["products"]))
        rows == CleanProducts(df)
    IN  IF fault = StgFault("read", "products") THEN ReadRaised(db.stg)
        ELSE IF df = <<>> THEN NothingToDo(db.stg, "products")
        ELSE Load(db.stg, "products", rows, foreignKeys, fault,
                  [table |-> "products", rows |-> Len(rows)])

valid_statuses == {"completed", "pending", "cancelled", "returned"}

CleanOrders(df, valid_customers) ==
    LET deduped == drop_duplicates(df, "order_id")
        referenced == Filter(deduped, [i \in 1 .. Len(deduped) |->
                          deduped[i].customer_id \in valid_customers])
        known == Filter(referenced, [i \in 1 .. Len(referenced) |->
                     /\ ~IsNull(referenced[i].order_status)
                     /\ Val(referenced[i].order_status) \in valid_statuses])
        positive == Filter(known, [i \in 1 .. Len(known) |-> Ge(known[i].total_amount, 0)])
    IN  dropna(positive, {"order_id", "customer_id", "order_date", "order_status", "total_amount"})

transform_orders(db, foreignKeys, fault) ==
    LET valid_customers == Column(db.stg["customers"], "customer_id")
        df == SelectBusiness(db.raw["orders"])
        rows == CleanOrders(df, valid_customers)
    IN  IF fault = StgFault("read", "orders") THEN ReadRaised(db.stg)
        ELSE IF df = <<>> THEN NothingToDo(db.stg, "orders")
        ELSE Load(db.stg, "orders", rows, foreignKeys, fault,
                  [table |-> "orders", rows |-> Len(rows)])

CleanOrderItems(df, valid_orders, valid_products) ==
    LET deduped == drop_duplicates(df, "order_item_id")
        ordered == Filter(deduped, [i \in 1 .. Len(deduped) |->
                       deduped[i].order_id \in valid_orders])
        produced == Filter(ordered, [i \in 1 .. Len(ordered) |->
                        ordered[i].product_id \in valid_products])
        positive == Filter(produced, [i \in 1 .. Len(produced) |->
                        Gt(produced[i].quantity, 0) /\ Ge(produced[i].unit_price, 0)])
        discounted == Filter(positive, [i \in 1 .. Len(positive) |->
                          Ge(positive[i].discount_percent, 0)
                          /\ Le(positive[i].discount_percent, 100)])
        complete == dropna(discounted, {"order_item_id", "order_id", "product_id",
                                        "quantity", "unit_price"})
    IN  fillna(complete, "discount_percent", 0)

transform_order_items(db, foreignKeys, fault) ==
    LET valid_orders == Column(db.stg["orders"], "order_id")
        valid_products == Column(db.stg["products"], "product_id")
        df == SelectBusiness(db.raw["order_items"])
        rows == CleanOrderItems(df, valid_orders, valid_products)
    IN  IF fault = StgFault("read", "order_items") THEN ReadRaised(db.stg)
        ELSE IF df = <<>> THEN NothingToDo(db.stg, "order_items")
        ELSE Load(db.stg, "order_items", rows, foreignKeys, fault,
                  [table |-> "order_items", rows |-> Len(rows)])

\* transform_<t>
Transform(t, db, foreignKeys, fault) ==
    CASE t = "customers" -> transform_customers(db, foreignKeys, fault)
      [] t = "products" -> transform_products(db, foreignKeys, fault)
      [] t = "orders" -> transform_orders(db, foreignKeys, fault)
      [] t = "order_items" -> transform_order_items(db, foreignKeys, fault)

RECURSIVE TransformTables(_, _, _, _, _)
\* the calls of transform_all for the tables left, each on the staging
\* schema the one before it has written
TransformTables(acc, tables, rawDb, foreignKeys, fault) ==
    IF tables = <<>> \/ acc.raised THEN acc
    ELSE LET t == Head(tables)
             r == Transform(t, [raw |-> rawDb, stg |-> acc.stg], foreignKeys, fault)
         IN  TransformTables([stg |-> r.stg, raised |-> r.raised,
                              ret |-> Append(acc.ret, r.ret)],
                             Tail(tables), rawDb, foreignKeys, fault)

\* transform_all: customers, products, orders, order_items
transform_all(db, foreignKeys, fault) ==
    TransformTables([stg |-> db.stg, raised |-> FALSE, ret |-> <<>>],
                    Tables, db.raw, foreignKeys, fault)

---------------------------------------------------------------------------
(* State *)

\* what `last` records of a call: the operation and its arguments, whether it
\* raised, what it returned, and for an ingestion the partitions it selected,
\* those it called ingest_partition on, and whether a read of a file failed;
\* for a transform_all, whether it comes right after a transform_all that
\* returned; for a build, whether its query raised
Call(op, t, k, incremental, raised, ret, selected, attempted, readFailed, queryFailed) ==
    [op |-> op, table |-> t, key |-> k, incremental |-> incremental,
     raised |-> raised, ret |-> ret, selected |-> selected, attempted |-> attempted,
     readFailed |-> readFailed, queryFailed |-> queryFailed, repeated |-> FALSE]

\* a call that is no ingestion
Plain(op, t, raised, ret) == Call(op, t, 0, FALSE, raised, ret, <<>>, <<>>, FALSE, FALSE)

NoCall == Plain("none", "none", FALSE, Null)

ProdTables == <<"daily_sales", "monthly_sales", "daily_category_metrics",
                "daily_product_metrics", "customer_metrics">>
ProdTableSet == SeqToSet(ProdTables)

Layers == <<"RAW", "STAGING", "PRODUCTION">>

\* the options of etl_runner.py: --full, --raw, --stg, --prod
Args(full, r, s, p) == [full |-> full, raw |-> r, stg |-> s, prod |-> p]
NoArgs == Args(FALSE, FALSE, FALSE, FALSE)

\* the state before generate_all_data enters its loop (lines 346-350)
InitGenerator ==
    /\ genDay = 1
    /\ genPc = "customers"
    /\ all_emails = {}
    /\ all_customer_ids = <<>>
    /\ current_customer_id = 1
    /\ current_order_id = 1
    /\ genFailed = FALSE
    /\ genBatch = [customers |-> <<>>, emails_used |-> {}, customer_ids_used |-> {}]
    /\ genLoop = [i |-> 0, rounds |-> 0, next_id |-> 1]

\* the pipeline runs over the files of one of the datasets; the generator is
\* not run again
\* the database after the DDL, the runner before main
InitPipeline ==
    /\ raw = EmptySchema
    /\ stg = EmptySchema
    /\ prod = [t \in ProdTableSet |-> <<>>]
    /\ last = NoCall
    /\ pc = "idle"
    /\ results = <<>>
    /\ started = <<>>
    /\ exitCode = Null
    /\ args = NoArgs

\* a DataValidator over an empty frame, before any rule is called
NoFrame == [columns |-> {}, rows |-> <<>>, na |-> "None"]
NoValidator ==
    [df |-> NoFrame, results |-> <<>>, op |-> "none", columns |-> <<>>, raised |-> Null]

\* PipelineValidator.__init__ (the connection is the database of the model)
NewPipelineValidator ==
    [pc |-> "idle", issues |-> <<>>, total_checks |-> 0, passed_checks |-> 0, ret |-> Null]

\* no run of the generator is looked at side by side with another
NoTwin == [prng |-> <<>>, error_seed |-> <<>>, runs |-> <<>>]

InitTools ==
    /\ dv = NoValidator
    /\ pv = NewPipelineValidator
    /\ twin = NoTwin

Init ==
    /\ InitTools
    /\ InitGenerator
    /\ files \in Datasets
    /\ stgForeignKeys \in BOOLEAN
    /\ distinctOrder \in {"heap", "hash"}
    /\ InitPipeline

\* the model stops appending to a raw table that would exceed MaxRawRows
WithinBound(rawDb) == \A t \in TableSet : Len(rawDb[t]) <= MaxRawRows

runnerVars == <<pc, results, started, exitCode, args>>

toolVars == <<dv, pv, twin>>

genVars == <<genDay, genPc, all_emails, all_customer_ids, current_customer_id,
             current_order_id, genFailed, genBatch, genLoop>>

---------------------------------------------------------------------------
(* Operations of the raw layer *)

IngestPartition(t, k, fault) ==
    \E r \in {ingest_partition(raw[t], t, k, fault)} :
        /\ pc = "idle"
        /\ Len(r.rows) <= MaxRawRows
        /\ raw' = [raw EXCEPT ![t] = r.rows]
        /\ last' = Call("ingest_partition", t, k, FALSE, r.raised, r.ret,
                        <<k>>, <<k>>, r.readFailed, FALSE)
        /\ UNCHANGED <<genVars, toolVars, files, stgForeignKeys, distinctOrder, stg, prod, runnerVars>>

IngestTable(t, incremental, fault) ==
    \E r \in {ingest_table(raw[t], t, incremental, fault)} :
        /\ pc = "idle"
        /\ Len(r.rows) <= MaxRawRows
        /\ raw' = [raw EXCEPT ![t] = r.rows]
        /\ last' = Call("ingest_table", t, 0, incremental, r.raised,
                        [table |-> t, partitions_processed |-> r.partitions_processed,
                         total_rows |-> r.total_rows],
                        r.selected, r.attempted, r.readFailed,
                        incremental /\ fault = QueryFault(t))
        /\ UNCHANGED <<genVars, toolVars, files, stgForeignKeys, distinctOrder, stg, prod, runnerVars>>

IngestAll(incremental, fault) ==
    \E r \in {ingest_all(raw, incremental, fault)} :
        /\ pc = "idle"
        /\ WithinBound(r.raw)
        /\ raw' = r.raw
        /\ last' = Call("ingest_all", "none", 0, incremental, r.raised,
                        r.total_rows, <<>>, r.done, FALSE,
                        incremental /\ fault.kind = "query")
        /\ UNCHANGED <<genVars, toolVars, files, stgForeignKeys, distinctOrder, stg, prod, runnerVars>>

TruncateAll ==
    /\ pc = "idle"
    /\ raw' = truncate_all(raw)
    /\ last' = Plain("truncate_all", "none", FALSE, Null)
    /\ UNCHANGED <<genVars, toolVars, files, stgForeignKeys, distinctOrder, stg, prod, runnerVars>>

\* the raw layer alone: its methods called in any order
NextRaw ==
    \/ \E t \in TableSet, k \in Keys :
           \E fault \in {NoFault, WriteFault(t, k)} : IngestPartition(t, k, fault)
    \/ \E t \in TableSet, incremental \in BOOLEAN :
           \E fault \in {NoFault, QueryFault(t)} \cup {WriteFault(t, k) : k \in Keys} :
               IngestTable(t, incremental, fault)
    \/ \E incremental \in BOOLEAN, fault \in RawFaults : IngestAll(incremental, fault)
    \/ TruncateAll

\* no operation of the raw layer reads the staging schema: one schema is enough
InitRaw == Init /\ ~stgForeignKeys /\ distinctOrder = "heap"

SpecRaw == InitRaw /\ [][NextRaw]_vars

---------------------------------------------------------------------------
(* Operations of the staging layer *)

TransformTable(t, fault) ==
    \E r \in {Transform(t, [raw |-> raw, stg |-> stg], stgForeignKeys, fault)} :
        /\ pc = "idle"
        /\ stg' = r.stg
        /\ last' = Plain("transform", t, r.raised, r.ret)
        /\ UNCHANGED <<genVars, toolVars, files, stgForeignKeys, distinctOrder, raw, prod, runnerVars>>

TransformAll(fault) ==
    \E r \in {transform_all([raw |-> raw, stg |-> stg], stgForeignKeys, fault)} :
        /\ pc = "idle"
        /\ stg' = r.stg
        /\ last' = [Plain("transform_all", "none", r.raised, r.ret)
                        EXCEPT !.repeated = (last.op = "transform_all" /\ ~last.raised)]
        /\ UNCHANGED <<genVars, toolVars, files, stgForeignKeys, distinctOrder, raw, prod, runnerVars>>

\* the ingestions the staging layer is explored over: one that completes, and
\* for each table one that stops at the write of the table's second partition
StgRawFaults == {NoFault} \cup {WriteFault(t, 2) : t \in TableSet}

\* the staging layer over a raw layer that is ingested and truncated as a whole
NextStg ==
    \/ \E incremental \in BOOLEAN, fault \in StgRawFaults : IngestAll(incremental, fault)
    \/ TruncateAll
    \/ \E t \in TableSet :
           \E fault \in {NoFault, StgFault("read", t), StgFault("write", t)} :
               TransformTable(t, fault)
    \/ \E fault \in StgFaults : TransformAll(fault)

SpecStg == Init /\ [][NextStg]_vars

---------------------------------------------------------------------------
(* ProdLayerETL.  The queries read staging; an amount of money times a     *)
(* percentage is kept exactly, in hundredths of a cent, until round(2)     *)
(* brings it back to cents.  discount_percent/100 is a numeric division.   *)

RECURSIVE SumSeq(_)
SumSeq(s) == IF s = <<>> THEN 0 ELSE Head(s) + SumSeq(Tail(s))

RECURSIVE Flatten(_)
Flatten(ss) == IF ss = <<>> THEN <<>> ELSE Head(ss) \o Flatten(Tail(ss))

\* the order of two tuples of integers of one length
LexLe(x, y) ==
    \/ x = y
    \/ \E i \in 1 .. Len(x) : x[i] < y[i] /\ \A j \in 1 .. (i - 1) : x[j] = y[j]

RECURSIVE SortByRank(_, _)
\* ORDER BY: the elements of S by ascending rank (a tuple of integers each)
SortByRank(S, rank) ==
    IF S = {} THEN <<>>
    ELSE LET m == CHOOSE x \in S : \A y \in S : LexLe(rank[x], rank[y])
         IN  <<m>> \o SortByRank(S \ {m}, rank)

\* round(2) of num/den cents: the nearest cent, a half to the even cent
Round2(num, den) ==
    LET q == num \div den
        r == num % den
    IN  IF 2 * r < den THEN q
        ELSE IF 2 * r > den THEN q + 1
        ELSE IF q % 2 = 0 THEN q ELSE q + 1

\* a date as a number that orders as the date does
DateNum(d) == d[1] * 10000 + d[2] * 100 + d[3]

\* the categories of the generator in the order ORDER BY p.category gives
Categories == <<"Books", "Clothing", "Electronics", "Food", "Home", "Sports", "Toys">>
CategoryRank(c) == CHOOSE i \in 1 .. Len(Categories) : Categories[i] = c

\* FROM staging.orders o JOIN staging.order_items oi ON o.order_id = oi.order_id
\* WHERE o.order_status = 'completed'
CompletedLines(stgDb) ==
    LET completed == SelectSeq(stgDb["orders"], LAMBDA o : o.order_status = Some("completed"))
    IN  Flatten([i \in 1 .. Len(completed) |->
            LET items == SelectSeq(stgDb["order_items"],
                                   LAMBDA oi : oi.order_id = completed[i].order_id)
            IN  [j \in 1 .. Len(items) |-> [o |-> completed[i], oi |-> items[j]]]])

\* ... JOIN staging.products p ON oi.product_id = p.product_id
ProductLines(stgDb) ==
    LET lines == CompletedLines(stgDb)
    IN  Flatten([i \in 1 .. Len(lines) |->
            LET products == SelectSeq(stgDb["products"],
                                      LAMBDA p : p.product_id = lines[i].oi.product_id)
            IN  [j \in 1 .. Len(products) |->
                    [o |-> lines[i].o, oi |-> lines[i].oi, p |-> products[j]]]])

\* oi.quantity * oi.unit_price * (1 - oi.discount_percent/100), in hundredths
\* of a cent
LineRevenue(oi) ==
    Val(oi.quantity) * Val(oi.unit_price) * (100 - Val(oi.discount_percent))

\* the aggregates of one group of joined rows
CountOrders(group) == Cardinality({group[i].o.order_id : i \in 1 .. Len(group)})
CountCustomers(group) == Cardinality({group[i].o.customer_id : i \in 1 .. Len(group)})
CountProducts(group) == Cardinality({group[i].p.product_id : i \in 1 .. Len(group)})
SumQuantity(group) == SumSeq([i \in 1 .. Len(group) |-> Val(group[i].oi.quantity)])
SumRevenue(group) == SumSeq([i \in 1 .. Len(group) |-> LineRevenue(group[i].oi)])

ProdFault(kind, t) == [kind |-> kind, table |-> t, key |-> 0]

\* a build that takes a query without rows for a failure
Replace_strict(prodDb, t, df, fault) ==
    IF fault = ProdFault("read", t) \/ df = <<>>
    THEN [prod |-> prodDb, raised |-> TRUE, ret |-> Null]
    ELSE LET emptied == truncate_table(prodDb, t, FALSE)
         IN  IF fault = ProdFault("write", t)
             THEN [prod |-> emptied, raised |-> TRUE, ret |-> Null]
             ELSE [prod |-> [emptied EXCEPT ![t] = write_dataframe(emptied[t], df)],
                   raised |-> FALSE, ret |-> [table |-> t, rows |-> Len(df)]]

\* the tail of every build: nothing when the query gave no row, else
\* truncate the table and write the frame
Replace(prodDb, t, df, fault) ==
    IF fault = ProdFault("read", t)
    THEN [prod |-> prodDb, raised |-> TRUE, ret |-> Null]
    ELSE IF df = <<>>
    THEN [prod |-> prodDb, raised |-> FALSE, ret |-> [table |-> t, rows |-> 0]]
    ELSE LET emptied == truncate_table(prodDb, t, FALSE)
         IN  IF fault = ProdFault("write", t)
             THEN [prod |-> emptied, raised |-> TRUE, ret |-> Null]
             ELSE [prod |-> [emptied EXCEPT ![t] = write_dataframe(emptied[t], df)],
                   raised |-> FALSE, ret |-> [table |-> t, rows |-> Len(df)]]

\* the frame build_daily_sales writes: one row per day with a completed order
\* that has an item, by day
DailySales(stgDb) ==
    LET lines == CompletedLines(stgDb)
        dates == {lines[i].o.order_date : i \in 1 .. Len(lines)}
        days == SortByRank(dates, [d \in dates |-> <<DateNum(Val(d))>>])
    IN  [g \in 1 .. Len(days) |->
            LET group == SelectSeq(lines, LAMBDA l : l.o.order_date = days[g])
            IN  [order_date |-> days[g],
                 total_orders |-> CountOrders(group),
                 total_items |-> SumQuantity(group),
                 total_revenue |-> Round2(SumRevenue(group), 100),
                 total_customers |-> CountCustomers(group),
                 avg_order_value |-> Round2(SumRevenue(group), 100 * CountOrders(group))]]

build_daily_sales(db, fault) ==
    Replace(db.prod, "daily_sales", DailySales(db.stg), fault)

\* the frame build_monthly_sales writes: one row per month, by month
MonthlySales(stgDb) ==
    LET lines == CompletedLines(stgDb)
        MonthOf(o) == <<Val(o.order_date)[1], Val(o.order_date)[2]>>
        found == {MonthOf(lines[i].o) : i \in 1 .. Len(lines)}
        months == SortByRank(found, [m \in found |-> m])
    IN  [g \in 1 .. Len(months) |->
            LET group == SelectSeq(lines, LAMBDA l : MonthOf(l.o) = months[g])
            IN  [year_month |-> months[g],
                 year |-> months[g][1],
                 month |-> months[g][2],
                 total_orders |-> CountOrders(group),
                 total_items |-> SumQuantity(group),
                 total_revenue |-> Round2(SumRevenue(group), 100),
                 total_customers |-> CountCustomers(group),
                 avg_order_value |-> Round2(SumRevenue(group), 100 * CountOrders(group))]]

build_monthly_sales(db, fault) ==
    Replace(db.prod, "monthly_sales", MonthlySales(db.stg), fault)


\* the frame build_daily_category_metrics writes: one row per day and
\* category, by day and category
DailyCategoryMetrics(stgDb) ==
    LET lines == ProductLines(stgDb)
        KeyOf(l) == <<l.o.order_date, l.p.category>>
        found == {KeyOf(lines[i]) : i \in 1 .. Len(lines)}
        keys == SortByRank(found, [x \in found |->
                    <<DateNum(Val(x[1])), CategoryRank(Val(x[2]))>>])
    IN  [g \in 1 .. Len(keys) |->
            LET group == SelectSeq(lines, LAMBDA l : KeyOf(l) = keys[g])
            IN  [order_date |-> keys[g][1],
                 category |-> keys[g][2],
                 total_orders |-> CountOrders(group),
                 total_items |-> SumQuantity(group),
                 total_revenue |-> Round2(SumRevenue(group), 100),
                 unique_customers |-> CountCustomers(group),
                 unique_products |-> CountProducts(group)]]

build_daily_category_metrics(db, fault) ==
    Replace(db.prod, "daily_category_metrics", DailyCategoryMetrics(db.stg), fault)

\* the frame build_daily_product_metrics writes: one row per day and product,
\* by day and falling revenue (products of equal revenue by id)
DailyProductMetrics(stgDb) ==
    LET lines == ProductLines(stgDb)
        KeyOf(l) == <<l.o.order_date, l.p.product_id, l.p.product_name, l.p.category>>
        found == {KeyOf(lines[i]) : i \in 1 .. Len(lines)}
        GroupOf(x) == SelectSeq(lines, LAMBDA l : KeyOf(l) = x)
        keys == SortByRank(found, [x \in found |->
                    <<DateNum(Val(x[1])), 0 - SumRevenue(GroupOf(x)), Val(x[2])>>])
    IN  [g \in 1 .. Len(keys) |->
            LET group == GroupOf(keys[g])
            IN  [order_date |-> keys[g][1],
                 product_id |-> keys[g][2],
                 product_name |-> keys[g][3],
                 category |-> keys[g][4],
                 total_orders |-> CountOrders(group),
                 total_quantity |-> SumQuantity(group),
                 total_revenue |-> Round2(SumRevenue(group), 100),
                 unique_customers |-> CountCustomers(group)]]

build_daily_product_metrics(db, fault) ==
    Replace(db.prod, "daily_product_metrics", DailyProductMetrics(db.stg), fault)

\* an inner join in the place of the two left joins
CustomerLines_inner(stgDb, c) ==
    LET orders == SelectSeq(stgDb["orders"],
                      LAMBDA o : o.customer_id = c.customer_id
                                 /\ o.order_status = Some("completed"))
    IN  Flatten([i \in 1 .. Len(orders) |->
            LET items == SelectSeq(stgDb["order_items"],
                                   LAMBDA oi : oi.order_id = orders[i].order_id)
            IN  [j \in 1 .. Len(items) |->
                    [c |-> c, o |-> Some(orders[i]), oi |-> Some(items[j])]]])

\* FROM staging.customers c
\* LEFT JOIN staging.orders o ON c.customer_id = o.customer_id
\*                            AND o.order_status = 'completed'
\* LEFT JOIN staging.order_items oi ON o.order_id = oi.order_id
\* for the customer row c: a row per item of a completed order, a row with
\* no item for a completed order without items, one row with neither for a
\* customer without completed orders
CustomerLines(stgDb, c) ==
    LET orders == SelectSeq(stgDb["orders"],
                      LAMBDA o : o.customer_id = c.customer_id
                                 /\ o.order_status = Some("completed"))
    IN  IF orders = <<>> THEN << [c |-> c, o |-> Null, oi |-> Null] >>
        ELSE Flatten([i \in 1 .. Len(orders) |->
                LET items == SelectSeq(stgDb["order_items"],
                                       LAMBDA oi : oi.order_id = orders[i].order_id)
                IN  IF items = <<>> THEN << [c |-> c, o |-> Some(orders[i]), oi |-> Null] >>
                    ELSE [j \in 1 .. Len(items) |->
                            [c |-> c, o |-> Some(orders[i]), oi |-> Some(items[j])]]])

\* the frame build_customer_metrics writes: one row per group of the joined
\* rows, by falling revenue (customers of equal revenue by id); the
\* days_since columns, which depend on the day of the run, are left out
CustomerMetrics(stgDb) ==
    LET customers == stgDb["customers"]
        lines == Flatten([i \in 1 .. Len(customers) |-> CustomerLines(stgDb, customers[i])])
        KeyOf(c) == <<c.customer_id, c.customer_name, c.customer_segment>>
        found == {KeyOf(lines[i].c) : i \in 1 .. Len(lines)}
        GroupOf(x) == SelectSeq(lines, LAMBDA l : KeyOf(l.c) = x)
        Items(group) == SelectSeq(group, LAMBDA l : ~IsNull(l.oi))
        Revenue(group) ==
            SumSeq([i \in 1 .. Len(Items(group)) |-> LineRevenue(Val(Items(group)[i].oi))])
        keys == SortByRank(found, [x \in found |-> <<0 - Revenue(GroupOf(x)), Val(x[1])>>])
    IN  [g \in 1 .. Len(keys) |->
            LET group == GroupOf(keys[g])
                ordered == SelectSeq(group, LAMBDA l : ~IsNull(l.o))
                dates == {DateNum(Val(Val(ordered[i].o).order_date)) : i \in 1 .. Len(ordered)}
                DateOf(n) == CHOOSE d \in {Val(ordered[i].o).order_date : i \in 1 .. Len(ordered)} :
                                 DateNum(Val(d)) = n
                total_orders == Cardinality({Val(ordered[i].o).order_id : i \in 1 .. Len(ordered)})
                total_revenue == Round2(Revenue(group), 100)
            IN  [customer_id |-> keys[g][1],
                 customer_name |-> keys[g][2],
                 customer_segment |-> keys[g][3],
                 first_order_date |->
                     IF dates = {} THEN Null
                     ELSE DateOf(CHOOSE n \in dates : \A m \in dates : n <= m),
                 last_order_date |->
                     IF dates = {} THEN Null
                     ELSE DateOf(CHOOSE n \in dates : \A m \in dates : n >= m),
                 total_orders |-> total_orders,
                 total_items |->
                     SumSeq([i \in 1 .. Len(Items(group)) |->
                                Val(Val(Items(group)[i].oi).quantity)]),
                 total_revenue |-> total_revenue,
                 avg_order_value |->
                     Round2(total_revenue, IF total_orders = 0 THEN 1 ELSE total_orders)]]

build_customer_metrics(db, fault) ==
    Replace(db.prod, "customer_metrics", CustomerMetrics(db.stg), fault)

\* build_<t>
Build(t, db, fault) ==
    CASE t = "daily_sales" -> build_daily_sales(db, fault)
      [] t = "monthly_sales" -> build_monthly_sales(db, fault)
      [] t = "daily_category_metrics" -> build_daily_category_metrics(db, fault)
      [] t = "daily_product_metrics" -> build_daily_product_metrics(db, fault)
      [] t = "customer_metrics" -> build_customer_metrics(db, fault)

RECURSIVE BuildTables(_, _, _, _)
\* the calls of build_all for the tables left
BuildTables(acc, tables, stgDb, fault) ==
    IF tables = <<>> \/ acc.raised THEN acc
    ELSE LET r == Build(Head(tables), [stg |-> stgDb, prod |-> acc.prod], fault)
         IN  BuildTables([prod |-> r.prod, raised |-> r.raised,
                          ret |-> Append(acc.ret, r.ret)],
                         Tail(tables), stgDb, fault)

\* build_all: the five builds, in the order of ProdTables
build_all(db, fault) ==
    BuildTables([prod |-> db.prod, raised |-> FALSE, ret |-> <<>>],
                ProdTables, db.stg, fault)

ProdFaults ==
    {NoFault} \cup {ProdFault(kind, t) : kind \in {"read", "write"}, t \in ProdTableSet}

---------------------------------------------------------------------------
(* Operations of the production layer *)

BuildTable(t, fault) ==
    \E r \in {Build(t, [stg |-> stg, prod |-> prod], fault)} :
        /\ pc = "idle"
        /\ prod' = r.prod
        /\ last' = [Plain("build", t, r.raised, r.ret)
                        EXCEPT !.queryFailed = (fault = ProdFault("read", t))]
        /\ UNCHANGED <<genVars, toolVars, files, stgForeignKeys, distinctOrder, raw, stg, runnerVars>>

BuildAll(fault) ==
    \E r \in {build_all([stg |-> stg, prod |-> prod], fault)} :
        /\ pc = "idle"
        /\ prod' = r.prod
        /\ last' = Plain("build_all", "none", r.raised, r.ret)
        /\ UNCHANGED <<genVars, toolVars, files, stgForeignKeys, distinctOrder, raw, stg, runnerVars>>

\* the production layer over a staging layer that is rebuilt as a whole
NextProd ==
    \/ \E fault \in {NoFault} \cup {WriteFault("orders", k) : k \in Keys} : IngestAll(TRUE, fault)
    \/ TruncateAll
    \/ TransformAll(NoFault)
    \/ \E t \in ProdTableSet :
           \E fault \in {NoFault, ProdFault("read", t), ProdFault("write", t)} :
               BuildTable(t, fault)
    \/ \E fault \in ProdFaults : BuildAll(fault)

SpecProd == Init /\ [][NextProd]_vars

---------------------------------------------------------------------------
(* ETLRunner.  pc is "idle" while no run is going on, the name of the      *)
(* layer the run has come to, or "exit" when main is about to print the    *)
(* summary and exit.                                                        *)

\* whether the run goes through run_full_pipeline: --full, or no option
FullPipeline(a) == a.full \/ ~(a.raw \/ a.stg \/ a.prod)

\* whether the run calls run_layer for the layer, given no failure before
Selected(a, layer) ==
    \/ FullPipeline(a)
    \/ layer = "RAW" /\ a.raw
    \/ layer = "STAGING" /\ a.stg
    \/ layer = "PRODUCTION" /\ a.prod

\* where the run goes from position i of Layers: the first selected layer
\* from there on, or the exit
LayerFrom(a, i) ==
    IF \E j \in i .. Len(Layers) : Selected(a, Layers[j])
    THEN Layers[CHOOSE j \in i .. Len(Layers) :
                    /\ Selected(a, Layers[j])
                    /\ \A m \in i .. (j - 1) : ~Selected(a, Layers[m])]
    ELSE "exit"

\* a run that goes on to the next layer after a failure
AfterLayer_continue(a, i, ok) == LayerFrom(a, i + 1)

\* where the run goes after run_layer has returned ok for the i-th layer:
\* run_full_pipeline returns False on a failure, main tests `success` before
\* every later layer
AfterLayer(a, i, ok) == IF ok THEN LayerFrom(a, i + 1) ELSE "exit"

\* run_layer: the entry of self.results for a layer whose function raised or
\* returned (the elapsed time is left out)
run_layer(layer, raised) ==
    [layer |-> layer, status |-> IF raised THEN "failed" ELSE "success"]

\* `success` at the end of main
Success(res) == \A i \in 1 .. Len(res) : res[i].status = "success"

\* main: a new run parses its options
Main(a) ==
    /\ pc = "idle"
    /\ args' = a
    /\ results' = <<>>
    /\ started' = <<>>
    /\ exitCode' = Null
    /\ pc' = LayerFrom(a, 1)
    /\ UNCHANGED <<genVars, toolVars, files, stgForeignKeys, distinctOrder, raw, stg, prod, last>>

\* run_layer("RAW", lambda: etl_raw.ingest_all())
RunRaw(fault) ==
    \E r \in {ingest_all(raw, TRUE, fault)} :
        /\ pc = "RAW"
        /\ WithinBound(r.raw)
        /\ raw' = r.raw
        /\ last' = Call("ingest_all", "none", 0, TRUE, r.raised, r.total_rows,
                        <<>>, r.done, FALSE, fault.kind = "query")
        /\ started' = Append(started, "RAW")
        /\ results' = Append(results, run_layer("RAW", r.raised))
        /\ pc' = AfterLayer(args, 1, ~r.raised)
        /\ UNCHANGED <<genVars, toolVars, files, stgForeignKeys, distinctOrder, stg, prod, exitCode, args>>

\* run_layer("STAGING", lambda: etl_stg.transform_all())
RunStaging(fault) ==
    \E r \in {transform_all([raw |-> raw, stg |-> stg], stgForeignKeys, fault)} :
        /\ pc = "STAGING"
        /\ stg' = r.stg
        /\ last' = [Plain("transform_all", "none", r.raised, r.ret)
                        EXCEPT !.repeated = (last.op = "transform_all" /\ ~last.raised)]
        /\ started' = Append(started, "STAGING")
        /\ results' = Append(results, run_layer("STAGING", r.raised))
        /\ pc' = AfterLayer(args, 2, ~r.raised)
        /\ UNCHANGED <<genVars, toolVars, files, stgForeignKeys, distinctOrder, raw, prod, exitCode, args>>

\* run_layer("PRODUCTION", lambda: etl_prod.build_all())
RunProduction(fault) ==
    \E r \in {build_all([stg |-> stg, prod |-> prod], fault)} :
        /\ pc = "PRODUCTION"
        /\ prod' = r.prod
        /\ last' = Plain("build_all", "none", r.raised, r.ret)
        /\ started' = Append(started, "PRODUCTION")
        /\ results' = Append(results, run_layer("PRODUCTION", r.raised))
        /\ pc' = AfterLayer(args, 3, ~r.raised)
        /\ UNCHANGED <<genVars, toolVars, files, stgForeignKeys, distinctOrder, raw, stg, exitCode, args>>

\* print_summary and sys.exit(0 if success else 1)
Exit ==
    /\ pc = "exit"
    /\ exitCode' = Some(IF Success(results) THEN 0 ELSE 1)
    /\ pc' = "idle"
    /\ UNCHANGED <<genVars, toolVars, files, stgForeignKeys, distinctOrder, raw, stg, prod, last,
                   results, started, args>>

\* the command lines the model runs
ArgSets ==
    {Args(TRUE, FALSE, FALSE, FALSE), NoArgs, Args(FALSE, FALSE, TRUE, FALSE),
     Args(FALSE, TRUE, FALSE, TRUE)}

\* the calls the model lets raise in a layer of a run
RunFaults ==
    [RAW |-> {NoFault, WriteFault("products", 1)},
     STAGING |-> {NoFault, StgFault("write", "orders")},
     PRODUCTION |-> {NoFault, ProdFault("write", "monthly_sales")}]

\* runs of etl_runner.py, one after the other, and RawLayerETL.truncate_all
\* between them
Next ==
    \/ \E a \in ArgSets : Main(a)
    \/ \E fault \in RunFaults["RAW"] : RunRaw(fault)
    \/ \E fault \in RunFaults["STAGING"] : RunStaging(fault)
    \/ \E fault \in RunFaults["PRODUCTION"] : RunProduction(fault)
    \/ Exit
    \/ TruncateAll

Spec == Init /\ [][Next]_vars


---------------------------------------------------------------------------
(* Claims on the raw layer *)

\* the partition keys found in the rows of a raw table
Present(rows) == {k \in Keys : \E i \in 1 .. Len(rows) : rows[i]._partition_date = k}
\* the rows of a raw table that partition k brought
RowsOf(rows, k) == SelectSeq(rows, LAMBDA r : r._partition_date = k)
\* the partitions that exist for a table
Listed(t) == {k \in Keys : files[t][k].state # "missing"}
IsPrefix(s, u) == Len(s) <= Len(u) /\ SubSeq(u, 1, Len(s)) = s
Ascending(s) == \A i \in 1 .. (Len(s) - 1) : s[i] < s[i + 1]

\* C4: ingest_partition only appends.  Every row raw.<table> held before the
\* call is still there, at its place and unchanged; the other tables are left
\* alone; a call that returns n > 0 has added exactly the n rows of the
\* partition file after them, each stamped with the partition key, whether the
\* partition was in the table before or not; a call that raises or returns 0
\* adds nothing.
C4_IngestPartitionAppends ==
    [][last'.op = "ingest_partition" =>
        LET t == last'.table
            k == last'.key
            added == SubSeq(raw'[t], Len(raw[t]) + 1, Len(raw'[t]))
        IN  /\ \A u \in TableSet \ {t} : raw'[u] = raw[u]
            /\ IsPrefix(raw[t], raw'[t])
            /\ IF last'.raised \/ last'.ret = 0 THEN added = <<>>
               ELSE /\ last'.ret = Len(files[t][k].rows)
                    /\ Len(added) = last'.ret
                    /\ \A i \in 1 .. Len(added) :
                          /\ added[i]._partition_date = k
                          /\ added[i].business = files[t][k].rows[i]
                    /\ Len(RowsOf(raw'[t], k)) = Len(RowsOf(raw[t], k)) + last'.ret
    ]_vars

\* a partition ingested a second time: its rows are in the table twice
C4_Witness ==
    /\ last.op = "ingest_partition"
    /\ ~last.raised
    /\ last.ret > 0
    /\ Len(RowsOf(raw[last.table], last.key)) = 2 * last.ret

\* C5: ingest_table selects, in ascending key order, the listed partitions
\* whose key get_ingested_dates did not return when incremental (every listed
\* partition when that query raised and it returned the empty set), and every
\* listed partition when not incremental, whatever raw holds; when it returns,
\* it has called ingest_partition on exactly these, in that order.
C5_IngestTableSelection ==
    [][last'.op = "ingest_table" =>
        LET t == last'.table
            ingested == IF last'.queryFailed THEN {} ELSE Present(raw[t])
            expected == IF last'.incremental THEN Listed(t) \ ingested ELSE Listed(t)
        IN  /\ Ascending(last'.selected)
            /\ SeqToSet(last'.selected) = expected
            /\ last'.ret.partitions_processed = Len(last'.selected)
            /\ ~last'.raised => last'.attempted = last'.selected
    ]_vars

\* an incremental call that skips a partition present in raw and takes another
C5_Witness ==
    /\ last.op = "ingest_table"
    /\ last.incremental
    /\ ~last.queryFailed
    /\ ~last.raised
    /\ last.selected # <<>>
    /\ Len(last.selected) < Cardinality(Listed(last.table))

\* a full call on a table that holds a listed partition already
C5_WitnessFull ==
    /\ last.op = "ingest_table"
    /\ ~last.incremental
    /\ ~last.raised
    /\ \E k \in Keys : Len(RowsOf(raw[last.table], k)) > Len(files[last.table][k].rows)

\* C6 (as claimed): an incremental ingest_table or ingest_all that follows a
\* completed one adds no row to any raw table.
C6_RerunAppendsNothing ==
    [][(/\ last.op \in {"ingest_table", "ingest_all"}
        /\ last.incremental
        /\ ~last.raised
        /\ last'.op = last.op
        /\ last'.table = last.table
        /\ last'.incremental)
       => raw' = raw]_vars

\* C7 (as claimed): a partition that cannot be read does not abort
\* ingest_table: the call returns and every selected partition was passed to
\* ingest_partition.
C7_ReadFailureDoesNotAbort ==
    (last.op = "ingest_table" /\ last.readFailed)
        => (~last.raised /\ last.attempted = last.selected)


---------------------------------------------------------------------------
(* Claims on the staging layer *)

\* the cleaned rows of table t, from raw and the staged parent tables
Cleaned(t, rawDb, stgDb) ==
    CASE t = "customers" -> CleanCustomers(SelectBusiness(rawDb["customers"])).rows
      [] t = "products" -> CleanProducts(SelectDistinct(SelectBusiness(rawDb["products"])))
      [] t = "orders" ->
            CleanOrders(SelectBusiness(rawDb["orders"]),
                        Column(stgDb["customers"], "customer_id"))
      [] t = "order_items" ->
            CleanOrderItems(SelectBusiness(rawDb["order_items"]),
                            Column(stgDb["orders"], "order_id"),
                            Column(stgDb["products"], "product_id"))

\* C1 (as claimed): a transform_<entity> that returns leaves in the staging
\* table of the entity exactly the cleaned rows of the current raw table
\* (none when raw is empty), and so no row of an earlier staging run.
C1_TransformReplaces ==
    [][(last'.op = "transform" /\ ~last'.raised)
        => stg'[last'.table] = Cleaned(last'.table, raw, stg)]_vars

\* C2: a transform_all that returns right after a transform_all that
\* returned, on the same raw data, leaves every staging table as the first
\* one left it: the same rows with the same values.
C2_TransformAllIdempotent ==
    [][(last'.op = "transform_all" /\ last'.repeated /\ ~last'.raised /\ raw' = raw)
        => stg' = stg]_vars

\* a second transform_all over staging tables that all hold rows, where the
\* cleaning has dropped a customer
C2_Witness ==
    /\ last.op = "transform_all"
    /\ last.repeated
    /\ ~last.raised
    /\ \A t \in TableSet : stg[t] # <<>>
    /\ Len(stg["customers"]) < Len(raw["customers"])

\* every staged order has a staged customer, every staged order item a staged
\* order and a staged product
ReferentiallyClosed(stgDb) ==
    /\ \A i \in 1 .. Len(stgDb["orders"]) :
          stgDb["orders"][i].customer_id \in Column(stgDb["customers"], "customer_id")
    /\ \A i \in 1 .. Len(stgDb["order_items"]) :
          /\ stgDb["order_items"][i].order_id \in Column(stgDb["orders"], "order_id")
          /\ stgDb["order_items"][i].product_id \in Column(stgDb["products"], "product_id")

\* C3 (as claimed): after a transform_all that returns, whatever raw and
\* staging held before, the staging tables are referentially closed.
C3_ReferentialClosure ==
    (last.op = "transform_all" /\ ~last.raised) => ReferentiallyClosed(stg)

\* C10 (as claimed): after a transform_customers that returns,
\* staging.customers has no two rows with one customer_id, no two rows with
\* one email and no row with a null email.
C10_CustomersUnique ==
    (last.op = "transform" /\ last.table = "customers" /\ ~last.raised)
        => LET c == stg["customers"]
           IN  /\ \A i, j \in 1 .. Len(c) : c[i].customer_id = c[j].customer_id => i = j
               /\ \A i, j \in 1 .. Len(c) : c[i].email = c[j].email => i = j
               /\ \A i \in 1 .. Len(c) : ~IsNull(c[i].email)

---------------------------------------------------------------------------
(* Claims on the production layer *)

\* the aggregation of the staging tables that build_<t> computes
Aggregation(t, stgDb) ==
    CASE t = "daily_sales" -> DailySales(stgDb)
      [] t = "monthly_sales" -> MonthlySales(stgDb)
      [] t = "daily_category_metrics" -> DailyCategoryMetrics(stgDb)
      [] t = "daily_product_metrics" -> DailyProductMetrics(stgDb)
      [] t = "customer_metrics" -> CustomerMetrics(stgDb)

\* C9 (as claimed): a build_<metric> that returns leaves in the production
\* table of the metric exactly the aggregation of the current staging tables
\* (no row when the query gives none), and so no row of an earlier run.
C9_BuildReplaces ==
    [][(last'.op = "build" /\ ~last'.raised)
        => prod'[last'.table] = Aggregation(last'.table, stg)]_vars

---------------------------------------------------------------------------
(* Claims on the runner *)

\* C8: in a run of run_full_pipeline the layers are started in the order RAW,
\* STAGING, PRODUCTION; every layer but the last one started has completed
\* with success; once a layer has failed no further layer is started, and
\* the run exits with code 1; it exits with code 0 only when all three
\* layers have completed with success.
C8_FailureStopsPipeline ==
    /\ [](FullPipeline(args) =>
            /\ IsPrefix(started, Layers)
            /\ Len(results) = Len(started)
            /\ \A i \in 1 .. Len(results) : results[i].layer = started[i]
            /\ \A i \in 1 .. (Len(results) - 1) : results[i].status = "success"
            /\ (pc = "idle" /\ ~IsNull(exitCode)) =>
                  (Val(exitCode) = 0 <=> (Len(results) = Len(Layers) /\ Success(results))))
    /\ [][(FullPipeline(args) /\ pc # "idle" /\ ~Success(results))
            => (started' = started /\ exitCode' = Some(1))]_vars

\* a full run whose STAGING layer failed after RAW succeeded: PRODUCTION was
\* never started and the run has exited with code 1
C8_Witness ==
    /\ FullPipeline(args)
    /\ pc = "idle"
    /\ started = <<"RAW", "STAGING">>
    /\ results[1].status = "success"
    /\ results[2].status = "failed"
    /\ exitCode = Some(1)


---------------------------------------------------------------------------
(* Claims on the cleaning rules of the staging layer *)

PrimaryKey(t) ==
    CASE t = "customers" -> "customer_id"
      [] t = "products" -> "product_id"
      [] t = "orders" -> "order_id"
      [] t = "order_items" -> "order_item_id"

\* the first row, in the order of the raw table, whose primary key is v
FirstRaw(rows, pk, v) ==
    rows[CHOOSE i \in 1 .. Len(rows) :
            /\ rows[i].business[pk] = v
            /\ \A j \in 1 .. (i - 1) : rows[j].business[pk] # v]

\* what the cleaning of table t makes of one raw row alone
CleanedAlone(t, row, stgDb) == Cleaned(t, [raw EXCEPT ![t] = <<row>>], stgDb)

\* a transform of table t has kept, of the rows of one primary key, the first
\* one in raw row order
KeepsFirst(t, rawRows, stgDb) ==
    /\ \A i \in 1 .. Len(stgDb[t]) :
          <<stgDb[t][i]>> =
              CleanedAlone(t, FirstRaw(rawRows, PrimaryKey(t), stgDb[t][i][PrimaryKey(t)]), stgDb)
    /\ \A i, j \in 1 .. Len(stgDb[t]) :
          stgDb[t][i][PrimaryKey(t)] = stgDb[t][j][PrimaryKey(t)] => i = j

\* C11 (as claimed): a transform_<entity> that has read rows and returns
\* leaves, of the raw rows of one primary key, only the first one in raw row
\* order (cleaned), and that key once; transform_customers reports as
\* dups_removed the number of rows read minus the number of distinct
\* customer_id values.
C11_KeepFirst ==
    [][(last'.op = "transform" /\ ~last'.raised /\ raw[last'.table] # <<>>)
        => /\ KeepsFirst(last'.table, raw[last'.table], stg')
           /\ last'.table = "customers" =>
                 last'.ret.dups_removed =
                     Len(raw["customers"])
                         - Cardinality(Column(SelectBusiness(raw["customers"]), "customer_id"))]_vars


InRange(x, lo, hi) == ~IsNull(x) /\ lo <= Val(x) /\ Val(x) <= hi
NotNegative(x) == ~IsNull(x) /\ 0 <= Val(x)

\* C12: after a transform_all that returns, every staged product has
\* price >= 0 and cost >= 0, every staged order has total_amount >= 0 and a
\* status of the enumeration, and every staged order item has quantity > 0,
\* unit_price >= 0 and 0 <= discount_percent <= 100.
C12_ValueDomains ==
    (last.op = "transform_all" /\ ~last.raised)
        => /\ \A i \in 1 .. Len(stg["products"]) :
                 /\ NotNegative(stg["products"][i].price)
                 /\ NotNegative(stg["products"][i].cost)
           /\ \A i \in 1 .. Len(stg["orders"]) :
                 /\ NotNegative(stg["orders"][i].total_amount)
                 /\ stg["orders"][i].order_status
                        \in {Some("completed"), Some("pending"), Some("cancelled"),
                             Some("returned")}
           /\ \A i \in 1 .. Len(stg["order_items"]) :
                 /\ ~IsNull(stg["order_items"][i].quantity)
                 /\ Val(stg["order_items"][i].quantity) > 0
                 /\ NotNegative(stg["order_items"][i].unit_price)
                 /\ InRange(stg["order_items"][i].discount_percent, 0, 100)

\* a transform_all over raw tables that hold a product with a negative price,
\* an order with a status outside the enumeration and an order item with a
\* discount of 150, and that has staged rows of each of the three tables
C12_Witness ==
    /\ last.op = "transform_all"
    /\ ~last.raised
    /\ \E i \in 1 .. Len(raw["products"]) : raw["products"][i].business = Prod3
    /\ \E i \in 1 .. Len(raw["orders"]) : raw["orders"][i].business = Ord4
    /\ \E i \in 1 .. Len(raw["order_items"]) : raw["order_items"][i].business = Item21
    /\ stg["products"] # <<>>
    /\ stg["orders"] # <<>>
    /\ stg["order_items"] # <<>>


\* the staged row of table t with primary key v, as a set (empty when there
\* is none)
Staged(stgDb, t, v) == {stgDb[t][i] : i \in {j \in 1 .. Len(stgDb[t]) : stgDb[t][j][PrimaryKey(t)] = v}}

\* raw customer row i is the first of its id and passes every rule on the
\* required columns
GoodCustomer(rows, i) ==
    /\ \A c \in {"customer_id", "customer_name", "email", "signup_date"} :
          ~IsNull(rows[i].business[c])
    /\ _validate_email(rows[i].business.email)
    /\ \A j \in 1 .. (i - 1) : rows[j].business.customer_id # rows[i].business.customer_id

\* raw order item row i is the first of its id and passes every rule on the
\* required columns
GoodOrderItem(rows, i, stgDb) ==
    /\ \A c \in {"order_item_id", "order_id", "product_id", "quantity", "unit_price"} :
          ~IsNull(rows[i].business[c])
    /\ rows[i].business.order_id \in Column(stgDb["orders"], "order_id")
    /\ rows[i].business.product_id \in Column(stgDb["products"], "product_id")
    /\ Val(rows[i].business.quantity) > 0
    /\ Val(rows[i].business.unit_price) >= 0
    /\ \A j \in 1 .. (i - 1) : rows[j].business.order_item_id # rows[i].business.order_item_id

\* a good customer row with a null optional column is staged with the default
CustomerDefaults(rows, stgDb) ==
    \A i \in 1 .. Len(rows) :
        GoodCustomer(rows, i) =>
            /\ IsNull(rows[i].business.country) =>
                  \E s \in Staged(stgDb, "customers", rows[i].business.customer_id) :
                      s.country = Some("Unknown")
            /\ IsNull(rows[i].business.customer_segment) =>
                  \E s \in Staged(stgDb, "customers", rows[i].business.customer_id) :
                      s.customer_segment = Some("Standard")

\* a good order item row with a null discount_percent is staged with 0
OrderItemDefaults(rows, stgDb) ==
    \A i \in 1 .. Len(rows) :
        (GoodOrderItem(rows, i, stgDb) /\ IsNull(rows[i].business.discount_percent)) =>
            \E s \in Staged(stgDb, "order_items", rows[i].business.order_item_id) :
                s.discount_percent = Some(0)

\* C13 (as claimed): after a transform_customers or transform_order_items
\* that returns, a raw row whose required columns are non-null and valid and
\* whose optional column is null is staged with the default: country
\* "Unknown", customer_segment "Standard", discount_percent 0.
C13_DefaultsFilled ==
    [][(last'.op = "transform" /\ ~last'.raised)
        => /\ last'.table = "customers" => CustomerDefaults(raw["customers"], stg')
           /\ last'.table = "order_items" => OrderItemDefaults(raw["order_items"], stg')]_vars


\* the raw order item rows, first of their id, whose discount_percent is
\* given and outside [0, 100]
OutOfRangeItems(rows) ==
    {i \in 1 .. Len(rows) :
        /\ ~IsNull(rows[i].business.discount_percent)
        /\ ~InRange(rows[i].business.discount_percent, 0, 100)
        /\ \A j \in 1 .. (i - 1) :
              rows[j].business.order_item_id # rows[i].business.order_item_id}

\* no such row is in staging.order_items
OutOfRangeNotStaged(rows, stgDb) ==
    \A i \in OutOfRangeItems(rows) :
        Staged(stgDb, "order_items", rows[i].business.order_item_id) = {}

\* the outcome has, besides the table and the rows written, a count that
\* covers the rows dropped
CountsDropped(ret, n) ==
    \E f \in (DOMAIN ret) \ {"table", "rows"} : ret[f] >= n

\* C14 (as claimed): after a transform_order_items that returns, a raw order
\* item whose discount_percent is outside [0, 100] is not in
\* staging.order_items, and the outcome returned counts it among the rows
\* dropped.
C14_OutOfRangeDroppedAndCounted ==
    [][(last'.op = "transform" /\ last'.table = "order_items" /\ ~last'.raised
          /\ OutOfRangeItems(raw["order_items"]) # {})
        => /\ OutOfRangeNotStaged(raw["order_items"], stg')
           /\ CountsDropped(last'.ret, Cardinality(OutOfRangeItems(raw["order_items"])))]_vars


\* the sum of the line totals of the staged items of order v, in hundredths
\* of a cent
ItemsTotal(stgDb, v) ==
    LET items == SelectSeq(stgDb["order_items"], LAMBDA oi : oi.order_id = v)
    IN  SumSeq([i \in 1 .. Len(items) |-> LineRevenue(items[i])])

\* the distance of two amounts
Abs(x) == IF x < 0 THEN 0 - x ELSE x

\* C15 (as claimed): after a transform_all that returns, the total_amount of
\* every staged order differs by less than 0.01 from the sum of
\* quantity * unit_price * (1 - discount_percent/100) over the staged order
\* items of the order.
C15_OrderTotalConsistent ==
    (last.op = "transform_all" /\ ~last.raised)
        => \A i \in 1 .. Len(stg["orders"]) :
              Abs(100 * Val(stg["orders"][i].total_amount)
                    - ItemsTotal(stg, stg["orders"][i].order_id)) < 100


---------------------------------------------------------------------------
(* Claims on the figures of the production layer *)

\* SELECT COALESCE(SUM(total_amount), 0) FROM staging.orders
\* WHERE order_status = 'completed', in cents
StagingRevenue(stgDb) ==
    LET completed == SelectSeq(stgDb["orders"], LAMBDA o : o.order_status = Some("completed"))
    IN  SumSeq([i \in 1 .. Len(completed) |-> Val(completed[i].total_amount)])

\* SELECT COALESCE(SUM(total_revenue), 0) FROM prod.daily_sales, in cents
ProdRevenue(prodDb) ==
    SumSeq([i \in 1 .. Len(prodDb["daily_sales"]) |-> prodDb["daily_sales"][i].total_revenue])

\* C16 (as claimed): after a transform_all that returns, followed by a
\* build_daily_sales that returns, the sum of total_revenue over
\* prod.daily_sales is within 0.01 of the sum of total_amount over the
\* completed orders of staging.orders.
C16_RevenueMatches ==
    [][(last.op = "transform_all" /\ ~last.raised
          /\ last'.op = "build" /\ last'.table = "daily_sales" /\ ~last'.raised)
        => Abs(StagingRevenue(stg') - ProdRevenue(prod')) <= 1]_vars


\* customer c of staging has no completed order
NoCompletedOrder(stgDb, c) ==
    \A i \in 1 .. Len(stgDb["orders"]) :
        ~(stgDb["orders"][i].customer_id = c.customer_id
            /\ stgDb["orders"][i].order_status = Some("completed"))

\* the rows of prod.customer_metrics of customer c
MetricsOf(prodDb, c) ==
    {i \in 1 .. Len(prodDb["customer_metrics"]) :
        prodDb["customer_metrics"][i].customer_id = c.customer_id}

\* C17: a build_customer_metrics that returns, over a staging.customers that
\* holds rows, leaves in prod.customer_metrics exactly one row per customer
\* of staging.customers; the row of a customer without a completed order has
\* total_orders, total_items, total_revenue and avg_order_value 0.
C17_OneRowPerCustomer ==
    [][(last'.op = "build" /\ last'.table = "customer_metrics" /\ ~last'.raised
          /\ stg["customers"] # <<>>)
        => /\ Len(prod'["customer_metrics"]) = Len(stg["customers"])
           /\ last'.ret.rows = Len(stg["customers"])
           /\ \A i \in 1 .. Len(stg["customers"]) :
                 /\ Cardinality(MetricsOf(prod', stg["customers"][i])) = 1
                 /\ NoCompletedOrder(stg, stg["customers"][i]) =>
                       \A j \in MetricsOf(prod', stg["customers"][i]) :
                           /\ prod'["customer_metrics"][j].total_orders = 0
                           /\ prod'["customer_metrics"][j].total_items = 0
                           /\ prod'["customer_metrics"][j].total_revenue = 0
                           /\ prod'["customer_metrics"][j].avg_order_value = 0]_vars

\* a build_customer_metrics over three staged customers of whom one has no
\* order: it has a row of zeros, the others have a row with their orders
C17_Witness ==
    /\ last.op = "build"
    /\ last.table = "customer_metrics"
    /\ ~last.raised
    /\ Len(stg["customers"]) = 3
    /\ Len(prod["customer_metrics"]) = 3
    /\ \E i \in 1 .. Len(stg["customers"]) : NoCompletedOrder(stg, stg["customers"][i])
    /\ \E j \in 1 .. 3 :
          /\ prod["customer_metrics"][j].total_orders = 0
          /\ prod["customer_metrics"][j].avg_order_value = 0
    /\ \E j \in 1 .. 3 : prod["customer_metrics"][j].total_orders = 2


\* C18: a build_<metric> whose query over staging is answered and yields no
\* row raises no error and returns a result with rows = 0.
C18_EmptyBuildReturnsZero ==
    [][(last'.op = "build" /\ ~last'.queryFailed /\ Aggregation(last'.table, stg) = <<>>)
        => /\ ~last'.raised
           /\ last'.ret.table = last'.table
           /\ last'.ret.rows = 0]_vars

\* a build_daily_sales over a staging schema that holds customers and no
\* order
C18_Witness ==
    /\ last.op = "build"
    /\ last.table = "daily_sales"
    /\ ~last.queryFailed
    /\ stg["customers"] # <<>>
    /\ stg["orders"] = <<>>
    /\ Aggregation("daily_sales", stg) = <<>>
    /\ ~last.raised
    /\ last.ret.rows = 0


---------------------------------------------------------------------------
(* generate_raw_data.py.  The random draws of a call are its inputs: what  *)
(* fake.email() returns at each attempt, whether an error_rng draw falls   *)
(* under a defect rate, which row random.choice picks.  The model scales   *)
(* the counts down: a day has a few customers instead of 10 to 50, and the *)
(* number of duplicate-person rows, int(len(customers) * 0.04) in the      *)
(* code, is an input from 0 to the 2 it can reach.                         *)

\* customers the generator may create in a run before the model stops it
MaxCustomers == 4
\* orders generate_orders_for_day creates in a day (100 to 500 in the code)
MaxOrders == 2
\* the retries of fake.email() before the fallback (1000 in the code)
MaxAttempts == 1
\* int(50 * DUPLICATE_NAME_RATE): the most duplicate-person rows of a day
MaxDuplicates == 2
\* the days of date_range in test mode
TestDays == 3

GenKeys == 1 .. TestDays

\* what fake.email() can return
EmailPool == {T_ab_co, T_c_d_io}
\* fake.user_name() and fake.domain_name()
T_u == <<"u">>
T_b_co == <<"b", ".", "c", "o">>

\* str(n) of a natural number
RECURSIVE Decimal(_)
Decimal(n) ==
    LET digit == <<"0", "1", "2", "3", "4", "5", "6", "7", "8", "9">>
    IN  IF n < 10 THEN <<digit[n + 1]>> ELSE Decimal(n \div 10) \o <<digit[(n % 10) + 1]>>

\* a number in two digits
TwoDigits(n) == IF n < 10 THEN <<"0">> \o Decimal(n) ELSE Decimal(n)

\* day.strftime('%Y%m%d')
strftime(day) == Decimal(day[1]) \o TwoDigits(day[2]) \o TwoDigits(day[3])

\* s[:n]
Truncate(s, n) == SubSeq(s, 1, IF Len(s) < n THEN Len(s) ELSE n)

\* s.replace('@', '_at_')
RECURSIVE replace_at(_)
replace_at(s) ==
    IF s = <<>> THEN <<>>
    ELSE (IF Head(s) = "@" THEN <<"_", "a", "t", "_">> ELSE <<Head(s)>>) \o replace_at(Tail(s))

\* s.lower()
lower(s) == [i \in 1 .. Len(s) |-> ToLower(s[i])]

\* the draws of error_rng in introduce_errors_customer: whether each falls
\* under its rate
ErrorDraw(lowercase, null_country, invalid_email) ==
    [lowercase |-> lowercase, null_country |-> null_country, invalid_email |-> invalid_email]
ErrorDraws == {ErrorDraw(FALSE, FALSE, FALSE), ErrorDraw(TRUE, TRUE, TRUE)}

\* an invalid-format defect that writes one fixed text
introduce_errors_customer_fixed(customer, draw) ==
    IF draw.invalid_email THEN [customer EXCEPT !.email = Some(<<"x">>)] ELSE customer

introduce_errors_customer(customer, draw) ==
    LET lowered == IF ~IsNull(customer.customer_name) /\ draw.lowercase
                   THEN [customer EXCEPT !.customer_name = Some(lower(Val(@)))]
                   ELSE customer
        uncountried == IF draw.null_country THEN [lowered EXCEPT !.country = Null]
                       ELSE lowered
    IN  IF draw.invalid_email
        THEN [uncountried EXCEPT !.email = Some(replace_at(Val(@)))]
        ELSE uncountried

\* email = fake.email(); while email in emails_used and attempt < 1000:
\* email = fake.email(): emails[attempt + 1] is what the call gives at that
\* attempt
RECURSIVE retry_email(_, _, _)
retry_email(emails, emails_used, attempt) ==
    IF emails[attempt + 1] \in emails_used /\ attempt < MaxAttempts
    THEN retry_email(emails, emails_used, attempt + 1)
    ELSE emails[attempt + 1]

\* the e-mail of a row: the one the retries end with, or the fallback when
\* that one is used as well
unique_email(emails, emails_used, fallback) ==
    LET email == retry_email(emails, emails_used, 0)
    IN  IF email \in emails_used THEN fallback ELSE email

\* f"{fake.user_name()}_{customer_id}_{day.strftime('%Y%m%d')}@{fake.domain_name()}"
fallback_email(customer_id, day) ==
    T_u \o <<"_">> \o Decimal(customer_id) \o <<"_">> \o strftime(day) \o <<"@">> \o T_b_co

\* f"{fake.user_name()}_{new_customer_id}_{random.randint(1000, 9999)}@{fake.domain_name()}"
duplicate_fallback_email(new_customer_id, number) ==
    T_u \o <<"_">> \o Decimal(new_customer_id) \o <<"_">> \o Decimal(number)
        \o <<"@">> \o T_b_co

\* what the draws of one base row are taken from: the e-mails fake.email()
\* gives, whether the name is null, the defects
BaseDraws ==
    [emails : [1 .. (MaxAttempts + 1) -> EmailPool], null_name : BOOLEAN, errors : ErrorDraws]

\* the working state of generate_customers_for_day
Batch(customers, emails_used, customer_ids_used) ==
    [customers |-> customers, emails_used |-> emails_used,
     customer_ids_used |-> customer_ids_used]

\* one round of the loop over the base customers (lines 149-184)
add_base(batch, i, day, start_customer_id, draw) ==
    LET customer_id == start_customer_id + i
        email == unique_email(draw.emails, batch.emails_used,
                              fallback_email(customer_id, day))
        customer == Customer(Some(customer_id),
                             IF draw.null_name THEN Null ELSE Some(Truncate(T_Di, 200)),
                             Some(Truncate(email, 200)),
                             Some("VN"), Some(day), Some("Basic"))
    IN  Batch(Append(batch.customers, introduce_errors_customer(customer, draw.errors)),
              batch.emails_used \cup {email},
              batch.customer_ids_used \cup {customer_id})

\* while new_customer_id in customer_ids_used: new_customer_id += 1
RECURSIVE free_id(_, _)
free_id(new_customer_id, customer_ids_used) ==
    IF new_customer_id \in customer_ids_used
    THEN free_id(new_customer_id + 1, customer_ids_used)
    ELSE new_customer_id

\* what the draws of one duplicate-person row are taken from: the row
\* random.choice picks, the e-mails, the number of the fallback, the defects
DuplicateDraws(batch) ==
    [pick : 1 .. Len(batch.customers), emails : [1 .. (MaxAttempts + 1) -> EmailPool],
     number : {1000}, errors : ErrorDraws]

\* one round of the loop over the duplicate people (lines 192-229)
add_duplicate(batch, i, day, next_id, draw) ==
    LET original == batch.customers[draw.pick]
        new_customer_id == free_id(next_id + i, batch.customer_ids_used)
        new_email == unique_email(draw.emails, batch.emails_used,
                                  duplicate_fallback_email(new_customer_id, draw.number))
        duplicate == Customer(Some(new_customer_id), original.customer_name,
                              Some(Truncate(new_email, 200)), original.country,
                              Some(day), original.customer_segment)
    IN  IF IsNull(original.customer_name) THEN batch
        ELSE Batch(Append(batch.customers,
                          introduce_errors_customer(duplicate, draw.errors)),
                   batch.emails_used \cup {new_email},
                   batch.customer_ids_used \cup {new_customer_id})

\* the assertions at the end of generate_customers_for_day (lines 234-241)
assertions_hold(df) ==
    /\ Cardinality(Column(df, "customer_id")) = Len(df)
    /\ Cardinality(Column(df, "email") \ {Null}) = Len(df)
    /\ \A i \in 1 .. Len(df) : ~IsNull(df[i].email)


\* the catalogue generate_products_master builds before the loop over the
\* days, with the defects of introduce_errors_product
products_df == <<Prod1, Prod2>>

\* the draws of one order line: product, quantity, discount
LineDraws == {[product |-> 1, quantity |-> 2, discount |-> 10],
              [product |-> 2, quantity |-> 1, discount |-> 5]}

\* the most lines of an order: ITEMS_PER_ORDER_RANGE = (1, 5)
MaxItems == 5

\* the draws of one order: the customer random.choice picks (the first or the
\* last of the list), the status, the lines (one line, or as many as an order
\* can have)
OrderDraws ==
    {[pick_last |-> FALSE, status |-> "completed", lines |-> <<l>>] : l \in LineDraws}
        \cup {[pick_last |-> TRUE, status |-> "pending",
                 lines |-> [j \in 1 .. MaxItems |->
                               IF j % 2 = 1 THEN [product |-> 1, quantity |-> 2, discount |-> 10]
                               ELSE [product |-> 2, quantity |-> 1, discount |-> 5]]]}

\* product_prices[product_id]
product_price(pdf, product_id) ==
    (CHOOSE p \in SeqToSet(pdf) : p.product_id = Some(product_id)).price

\* the lines of one order (lines 274-290), numbered from order_item_id on
order_lines(order_id, order_item_id, pdf, draw) ==
    [j \in 1 .. Len(draw.lines) |->
        OrderItem(Some(order_item_id + j - 1), Some(order_id),
                  Some(draw.lines[j].product), Some(draw.lines[j].quantity),
                  product_price(pdf, draw.lines[j].product),
                  Some(draw.lines[j].discount))]

\* a loop over the orders that numbers the lines from start_order_id on
RECURSIVE orders_loop_dense(_, _, _, _, _, _, _)
orders_loop_dense(made, i, day, start_order_id, customer_ids, pdf, draws) ==
    IF i = Len(draws) THEN made
    ELSE LET order_id == start_order_id + i
             order_item_id == start_order_id + Len(made.order_items)
             customer_id == IF draws[i + 1].pick_last THEN customer_ids[Len(customer_ids)]
                            ELSE customer_ids[1]
             lines == order_lines(order_id, order_item_id, pdf, draws[i + 1])
             order_total == SumSeq([j \in 1 .. Len(lines) |-> LineRevenue(lines[j])])
             order == Order(Some(order_id), Some(customer_id), Some(day),
                            Some(draws[i + 1].status), Some(Round2(order_total, 100)))
         IN  orders_loop_dense([orders |-> Append(made.orders, order),
                                order_items |-> made.order_items \o lines],
                               i + 1, day, start_order_id, customer_ids, pdf, draws)

\* the loop over the orders (lines 265-298), from round i on
RECURSIVE orders_loop(_, _, _, _, _, _, _)
orders_loop(made, i, day, start_order_id, customer_ids, pdf, draws) ==
    IF i = Len(draws) THEN made
    ELSE LET order_id == start_order_id + i
             order_item_id == start_order_id * 10 + Len(made.order_items)
             customer_id == IF draws[i + 1].pick_last THEN customer_ids[Len(customer_ids)]
                            ELSE customer_ids[1]
             lines == order_lines(order_id, order_item_id, pdf, draws[i + 1])
             order_total == SumSeq([j \in 1 .. Len(lines) |-> LineRevenue(lines[j])])
             order == Order(Some(order_id), Some(customer_id), Some(day),
                            Some(draws[i + 1].status), Some(Round2(order_total, 100)))
         IN  orders_loop([orders |-> Append(made.orders, order),
                          order_items |-> made.order_items \o lines],
                         i + 1, day, start_order_id, customer_ids, pdf, draws)

\* generate_orders_for_day: draws are the draws of its orders; the rows the
\* code repeats, int(len * 0.04) of each frame picked by random.choices, are
\* dup_orders and dup_items rows, in the model the first ones
generate_orders_for_day(day, start_order_id, customer_ids, pdf, draws, dup_orders, dup_items) ==
    LET made == orders_loop([orders |-> <<>>, order_items |-> <<>>], 0, day,
                            start_order_id, customer_ids, pdf, draws)
    IN  IF customer_ids = <<>> THEN [orders |-> <<>>, order_items |-> <<>>]
        ELSE [orders |-> made.orders \o SubSeq(made.orders, 1, dup_orders),
              order_items |-> made.order_items \o SubSeq(made.order_items, 1, dup_items)]

\* the e-mails of a frame: set(df['email'].dropna().unique())
new_emails(df) == {Val(df[i].email) : i \in {j \in 1 .. Len(df) : ~IsNull(df[j].email)}}

\* df['customer_id'].unique().tolist()
RECURSIVE new_ids(_)
new_ids(df) ==
    IF df = <<>> THEN <<>>
    ELSE LET rest == new_ids(SubSeq(df, 1, Len(df) - 1))
             id == Val(df[Len(df)].customer_id)
         IN  IF id \in SeqToSet(rest) THEN rest ELSE Append(rest, id)

---------------------------------------------------------------------------
(* Steps of generate_all_data: the body of its loop over the days *)

etlVars == <<stgForeignKeys, distinctOrder, raw, stg, prod, last, runnerVars, toolVars>>

\* generate_customers_for_day is called: num_customers is drawn, the
\* e-mails start from the global set (lines 138-146)
StartCustomers(num_customers) ==
    /\ genPc = "customers"
    /\ genDay \in GenKeys
    /\ current_customer_id - 1 + num_customers <= MaxCustomers
    /\ genBatch' = Batch(<<>>, all_emails, {})
    /\ genLoop' = [i |-> 0, rounds |-> num_customers, next_id |-> current_customer_id]
    /\ genPc' = "base"
    /\ UNCHANGED <<genDay, all_emails, all_customer_ids, current_customer_id,
                   current_order_id, genFailed, files, etlVars>>

\* one round of the loop over the base customers
BaseCustomer(draw) ==
    /\ genPc = "base"
    /\ genLoop.i < genLoop.rounds
    /\ genBatch' = add_base(genBatch, genLoop.i, DayOf(genDay), current_customer_id, draw)
    /\ genLoop' = [genLoop EXCEPT !.i = @ + 1]
    /\ UNCHANGED <<genDay, genPc, all_emails, all_customer_ids, current_customer_id,
                   current_order_id, genFailed, files, etlVars>>

\* the base customers are made: num_duplicates and next_id (lines 188-190)
StartDuplicates(num_duplicates) ==
    /\ genPc = "base"
    /\ genLoop.i = genLoop.rounds
    /\ current_customer_id - 1 + Len(genBatch.customers) + num_duplicates <= MaxCustomers
    /\ genLoop' = [i |-> 0, rounds |-> num_duplicates,
                   next_id |-> current_customer_id + Len(genBatch.customers)]
    /\ genPc' = "duplicates"
    /\ UNCHANGED <<genDay, genBatch, all_emails, all_customer_ids, current_customer_id,
                   current_order_id, genFailed, files, etlVars>>

\* one round of the loop over the duplicate people
DuplicateCustomer(draw) ==
    /\ genPc = "duplicates"
    /\ genLoop.i < genLoop.rounds
    /\ genBatch' = add_duplicate(genBatch, genLoop.i, DayOf(genDay), genLoop.next_id, draw)
    /\ genLoop' = [genLoop EXCEPT !.i = @ + 1]
    /\ UNCHANGED <<genDay, genPc, all_emails, all_customer_ids, current_customer_id,
                   current_order_id, genFailed, files, etlVars>>

\* generate_customers_for_day verifies its frame and returns it;
\* generate_all_data saves it and updates what it tracks (lines 231-243,
\* 368-390).  A failed assertion ends the run.
FinishCustomers ==
    LET df == genBatch.customers
        ok == assertions_hold(df)
    IN  /\ genPc = "duplicates"
        /\ genLoop.i = genLoop.rounds
        /\ genFailed' = ~ok
        /\ genPc' = IF ok THEN "products" ELSE "done"
        /\ files' = IF ok THEN [files EXCEPT !.customers[genDay] = Parquet(df)] ELSE files
        /\ all_emails' = IF ok THEN all_emails \cup new_emails(df) ELSE all_emails
        /\ all_customer_ids' = IF ok THEN all_customer_ids \o new_ids(df)
                               ELSE all_customer_ids
        /\ current_customer_id' = IF ok THEN current_customer_id + Len(df)
                                  ELSE current_customer_id
        /\ UNCHANGED <<genDay, genBatch, genLoop, current_order_id, etlVars>>

\* the catalogue is saved every day (lines 392-396)
SaveProducts ==
    /\ genPc = "products"
    /\ files' = [files EXCEPT !.products[genDay] = Parquet(products_df)]
    /\ genPc' = "orders"
    /\ UNCHANGED <<genDay, all_emails, all_customer_ids, current_customer_id,
                   current_order_id, genFailed, genBatch, genLoop, etlVars>>

\* the next day of date_range, or the end of the loop
NextGenDay ==
    /\ genDay' = genDay + 1
    /\ genPc' = IF genDay = TestDays THEN "done" ELSE "customers"

\* no orders on the first day (line 399)
SkipOrders ==
    /\ genPc = "orders"
    /\ ~(all_customer_ids # <<>> /\ genDay >= 2)
    /\ NextGenDay
    /\ UNCHANGED <<all_emails, all_customer_ids, current_customer_id, current_order_id,
                   genFailed, genBatch, genLoop, files, etlVars>>

\* the orders of a later day are generated and saved (lines 399-416)
GenerateOrders(draws, dup_orders, dup_items) ==
    LET made == generate_orders_for_day(DayOf(genDay), current_order_id, all_customer_ids,
                                        products_df, draws, dup_orders, dup_items)
    IN  /\ genPc = "orders"
        /\ all_customer_ids # <<>> /\ genDay >= 2
        /\ files' = IF made.orders = <<>> THEN files
                    ELSE [files EXCEPT !.orders[genDay] = Parquet(made.orders),
                                       !.order_items[genDay] = Parquet(made.order_items)]
        /\ current_order_id' = current_order_id + Len(made.orders)
        /\ NextGenDay
        /\ UNCHANGED <<all_emails, all_customer_ids, current_customer_id, genFailed,
                       genBatch, genLoop, etlVars>>

\* raw_data before the generator has run: no partition
NoFiles == [t \in TableSet |-> [k \in GenKeys |-> Missing]]

InitGen ==
    /\ InitTools
    /\ InitGenerator
    /\ files = NoFiles
    /\ stgForeignKeys = FALSE
    /\ distinctOrder = "heap"
    /\ InitPipeline

\* the steps of the generator with its draws taken from the given sets
GenStep(customerCounts, baseDraws, duplicateCounts, orderCounts, orderDraws, repeats) ==
    \/ \E num_customers \in customerCounts : StartCustomers(num_customers)
    \/ \E draw \in baseDraws : BaseCustomer(draw)
    \/ \E num_duplicates \in duplicateCounts : StartDuplicates(num_duplicates)
    \/ \E draw \in DuplicateDraws(genBatch) : DuplicateCustomer(draw)
    \/ FinishCustomers
    \/ SaveProducts
    \/ SkipOrders
    \/ \E num_orders \in orderCounts :
           \E draws \in [1 .. num_orders -> orderDraws], dup_orders \in repeats,
              dup_items \in repeats :
               GenerateOrders(draws, dup_orders, dup_items)

\* one order of one line: the orders of a run whose customers are looked at
OneOrder == [pick_last |-> FALSE, status |-> "completed",
             lines |-> <<[product |-> 2, quantity |-> 1, discount |-> 5]>>]

\* one customer with no defect: the customers of a run whose orders are
\* looked at
OneCustomer == [emails |-> [a \in 1 .. (MaxAttempts + 1) |-> T_ab_co], null_name |-> FALSE,
                errors |-> ErrorDraw(FALSE, FALSE, FALSE)]

\* the generator with every draw of its customers, and one order a day
NextGen == GenStep(1 .. MaxCustomers, BaseDraws, 0 .. MaxDuplicates, {1}, {OneOrder}, {0})

SpecGen == InitGen /\ [][NextGen]_vars

\* the generator with every draw of its orders, and one customer a day
NextOrders == GenStep({1}, {OneCustomer}, 0 .. 1, 1 .. MaxOrders, OrderDraws, 0 .. 1)

SpecOrders == InitGen /\ [][NextOrders]_vars


---------------------------------------------------------------------------
(* Claims on the data generator *)

\* the rows of a frame have pairwise distinct ids, pairwise distinct e-mails
\* and no null e-mail
UniqueIdsAndEmails(df) ==
    /\ \A i \in 1 .. Len(df), j \in 1 .. Len(df) :
           i # j => df[i].customer_id # df[j].customer_id /\ df[i].email # df[j].email
    /\ \A i \in 1 .. Len(df) : df[i].email # Null

\* C19: the assertions at the end of generate_customers_for_day never fail:
\* on every day, whatever the start id and the e-mails of the earlier days,
\* the rows of the day (base rows and duplicate-person rows) have pairwise
\* distinct customer_id values, pairwise distinct e-mails and no null e-mail.
C19_AssertionsNeverFail == ~genFailed /\ UniqueIdsAndEmails(genBatch.customers)

\* the second day's frame is verified and saved: a base row and a
\* duplicate-person row, one of them with the invalid-format defect on an
\* e-mail that an earlier day has drawn as well
C19_Witness ==
    /\ genPc = "products"
    /\ genDay = 2
    /\ genLoop.rounds = 1
    /\ Len(genBatch.customers) = 2
    /\ genBatch.customers[1].customer_name = genBatch.customers[2].customer_name
    /\ \E i \in 1 .. 2 : genBatch.customers[i].email = Some(T_a_at_b_co)
    /\ T_a_at_b_co \in genBatch.emails_used

\* the e-mails written to the customers partitions of two days
WrittenTwice(fs) ==
    {e \in UNION {Column(fs.customers[k].rows, "email") : k \in GenKeys} :
        \E k1 \in GenKeys, k2 \in GenKeys :
            /\ k1 < k2
            /\ e \in Column(fs.customers[k1].rows, "email")
            /\ e \in Column(fs.customers[k2].rows, "email")}

\* C20 (as claimed): across the days of one run of generate_all_data, the
\* e-mail of every customer as written to its partition differs from the
\* e-mail of every customer written on an earlier day, also after the
\* invalid-format defect.
C20_GloballyUniqueEmails == WrittenTwice(files) = {}


\* the customer ids written to the partition of day k
WrittenIds(fs, k) == {Val(id) : id \in Column(fs.customers[k].rows, "customer_id")}

\* C21 (as claimed): across the days of one run of generate_all_data the
\* customer ids are strictly increasing and pairwise distinct: every id
\* written on a day, to a base row or to a duplicate-person row, is smaller
\* than every id written on a later day, whichever picks of the
\* duplicate-person loop are skipped.
C21_IdsIncreaseAcrossDays ==
    \A k1 \in GenKeys, k2 \in GenKeys :
        k1 < k2 => \A id1 \in WrittenIds(files, k1), id2 \in WrittenIds(files, k2) : id1 < id2


---------------------------------------------------------------------------
(* Claims on the raw layer when the query of the ingested keys fails *)

\* C29: when the query for the partition keys present in raw fails,
\* get_ingested_dates returns the empty set instead of raising: an
\* incremental ingest_table then selects every listed partition, does not
\* raise on account of the query, and, when it returns, has appended the rows
\* of every partition that raw held already once more.
C29_FailedQueryIngestsAgain ==
    [][(last'.op = "ingest_table" /\ last'.incremental /\ last'.queryFailed) =>
        LET t == last'.table
        IN  /\ SeqToSet(last'.selected) = Listed(t)
            /\ last'.raised => last'.readFailed
            /\ ~last'.raised =>
                   \A k \in Present(raw[t]) :
                       Len(RowsOf(raw'[t], k))
                           = Len(RowsOf(raw[t], k)) + Len(files[t][k].rows)
    ]_vars

\* an incremental ingest_table whose query failed has returned, and raw holds
\* two copies of a partition
C29_Witness ==
    /\ last.op = "ingest_table"
    /\ last.incremental
    /\ last.queryFailed
    /\ ~last.raised
    /\ \E k \in Keys :
           /\ files[last.table][k].rows # <<>>
           /\ Len(RowsOf(raw[last.table], k)) = 2 * Len(files[last.table][k].rows)


\* the rows of a table written to the partition of day k
Written(fs, t, k) == fs[t][k].rows

\* rows of a table that carry one id are one row of one day, or that row and
\* the copies of it that the same day repeats
OneRowPerId(fs, t, col) ==
    \A k1 \in GenKeys, k2 \in GenKeys :
        \A i1 \in 1 .. Len(Written(fs, t, k1)), i2 \in 1 .. Len(Written(fs, t, k2)) :
            Written(fs, t, k1)[i1][col] = Written(fs, t, k2)[i2][col]
                => k1 = k2 /\ Written(fs, t, k1)[i1] = Written(fs, t, k2)[i2]

\* the line ids of one day lie below the line ids of every later day
ItemRangesApart(fs) ==
    \A k1 \in GenKeys, k2 \in GenKeys :
        k1 < k2 =>
            \A i1 \in 1 .. Len(Written(fs, "order_items", k1)),
               i2 \in 1 .. Len(Written(fs, "order_items", k2)) :
                Val(Written(fs, "order_items", k1)[i1].order_item_id)
                    < Val(Written(fs, "order_items", k2)[i2].order_item_id)

\* every order of day k names a customer written on day k or earlier
CustomersKnown(fs) ==
    \A k \in GenKeys : \A i \in 1 .. Len(Written(fs, "orders", k)) :
        \E k0 \in 1 .. k :
            Val(Written(fs, "orders", k)[i].customer_id) \in WrittenIds(fs, k0)

\* C30: apart from the rows the generator repeats on purpose, the order_id
\* and the order_item_id values of the days of one run are pairwise distinct;
\* with up to five lines an order, the line ids of a day, which start at
\* start_order_id * 10, lie below those of every later day; and every order
\* names a customer generated on its day or earlier.
C30_OrderIdsDistinct ==
    /\ OneRowPerId(files, "orders", "order_id")
    /\ OneRowPerId(files, "order_items", "order_item_id")
    /\ ItemRangesApart(files)
    /\ CustomersKnown(files)

\* two days of orders are written; the first has two orders of five lines
\* and a repeated order, the second starts right after them
C30_Witness ==
    /\ Len(Written(files, "orders", 2)) = 3
    /\ Len(Written(files, "order_items", 2)) >= 2 * MaxItems
    /\ Written(files, "orders", 2)[3] = Written(files, "orders", 2)[1]
    /\ Written(files, "orders", 3) # <<>>
    /\ Written(files, "order_items", 3)[1].order_item_id = Some(40)

---------------------------------------------------------------------------
(* DataValidator (validators.py): the rules of validate_dataframe, the     *)
(* primary-key rule and the phone preset.  A frame is its set of columns,  *)
(* its rows, and the text its nulls turn into under astype(str): "None"    *)
(* for a None, "nan" for a NaN.                                             *)

\* results a validator accumulates before the model stops calling rules
MaxResults == 3

T_None == <<"N", "o", "n", "e">>
T_nan == <<"n", "a", "n">>
T_phone == <<"+", "1", " ", "5", "5", "5", "-", "0", "1", "0", "0">>   \* +1 555-0100

Frame(columns, rows, na) == [columns |-> columns, rows |-> rows, na |-> na]

Person(id, email, phone, age) ==
    [customer_id |-> id, email |-> email, phone |-> phone, age |-> age]
Short(id, age) == [customer_id |-> id, age |-> age]

AllColumns == {"customer_id", "email", "phone", "age"}

Frames ==
    { \* nothing wrong
      Frame(AllColumns,
            <<Person(Some(1), Some(T_ab_co), Some(T_phone), Some(30)),
              Person(Some(2), Some(T_c_d_io), Some(T_phone), Some(40))>>, "None"),
      \* a null e-mail and a null phone, every other value well formed
      Frame(AllColumns,
            <<Person(Some(1), Some(T_ab_co), Some(T_phone), Some(30)),
              Person(Some(2), Null, Null, Some(40))>>, "None"),
      Frame(AllColumns,
            <<Person(Some(1), Some(T_ab_co), Some(T_phone), Some(30)),
              Person(Some(2), Null, Null, Some(40))>>, "nan"),
      \* a repeated id, an e-mail and a phone of the wrong format, an age
      \* out of range, and nulls
      Frame(AllColumns,
            <<Person(Some(1), Some(T_a_at_b_co), Some(T_tv), Some(200)),
              Person(Some(1), Null, Null, Null)>>, "None"),
      \* no e-mail and no phone column
      Frame({"customer_id", "age"}, <<Short(Some(1), Some(30)), Short(Some(1), Some(40))>>,
            "None") }

ValidationResult(rule_name, passed, message, failed_rows) ==
    [rule_name |-> rule_name, passed |-> passed, message |-> message,
     failed_rows |-> failed_rows]

\* ValidationResult.__repr__
repr(r) == <<IF r.passed THEN "PASS" ELSE "FAIL", r.rule_name, r.message>>

\* self.results after add_result
add_result(self, result) == [self EXCEPT !.results = Append(self.results, result)]

\* a method that returned, a method that raised
Returned(self) == [results |-> self.results, raised |-> Null]
Raised(self, error) == [results |-> self.results, raised |-> Some(error)]

\* <mask>.sum(): the rows at which a mask (a boolean for each row) holds
MaskSum(mask) == Cardinality({i \in DOMAIN mask : mask[i]})

\* self.df[column]
Series(df, column) == [i \in 1 .. Len(df.rows) |-> df.rows[i][column]]

\* the rows that repeat an earlier row on the given columns (duplicated().sum())
duplicated(df, columns) ==
    Len(df.rows) - Cardinality({[c \in columns |-> df.rows[i][c]] : i \in 1 .. Len(df.rows)})

no_nulls(df, col) ==
    IF col \notin df.columns
    THEN ValidationResult(<<"no_nulls", col>>, FALSE,
                          <<"Column", col, "not found in dataset">>, 0)
    ELSE LET null_count == MaskSum([i \in 1 .. Len(df.rows) |-> IsNull(Series(df, col)[i])])
         IN  ValidationResult(<<"no_nulls", col>>, null_count = 0,
                              IF null_count # 0
                              THEN <<"Found", null_count, "null values in", col>>
                              ELSE <<"No nulls in", col>>,
                              null_count)

RECURSIVE no_nulls_loop(_, _)
no_nulls_loop(self, columns) ==
    IF columns = <<>> THEN self
    ELSE no_nulls_loop(add_result(self, no_nulls(self.df, Head(columns))), Tail(columns))

check_no_nulls(self, columns) == Returned(no_nulls_loop(self, columns))

RECURSIVE unique_loop(_, _)
unique_loop(self, columns) ==
    IF columns = <<>> THEN self
    ELSE LET col == Head(columns)
             duplicate_count == duplicated(self.df, {col})
         IN  IF col \notin self.df.columns THEN unique_loop(self, Tail(columns))
             ELSE unique_loop(
                      add_result(self,
                          ValidationResult(<<"unique", col>>, duplicate_count = 0,
                              IF duplicate_count # 0
                              THEN <<"Found", duplicate_count, "duplicates in", col>>
                              ELSE <<"All values unique in", col>>,
                              duplicate_count)),
                      Tail(columns))

check_unique(self, columns) == Returned(unique_loop(self, columns))

\* df.duplicated(subset=columns) raises KeyError when a column is not there
check_primary_key(self, columns) ==
    IF ~(SeqToSet(columns) \subseteq self.df.columns) THEN Raised(self, <<"KeyError">>)
    ELSE LET duplicate_count == duplicated(self.df, SeqToSet(columns))
         IN  Returned(add_result(self,
                 ValidationResult(<<"primary_key", columns>>, duplicate_count = 0,
                     IF duplicate_count # 0
                     THEN <<"Found", duplicate_count, "duplicate keys">>
                     ELSE <<"Primary key is valid">>,
                     duplicate_count)))

\* min_value and max_value are Null (None) or Some(number); a comparison with
\* a null value is false
check_value_range(self, column, min_value, max_value) ==
    IF column \notin self.df.columns THEN Returned(self)
    ELSE LET values == Series(self.df, column)
             below == [i \in DOMAIN values |-> ~IsNull(values[i]) /\ Val(values[i]) < Val(min_value)]
             above == [i \in DOMAIN values |-> ~IsNull(values[i]) /\ Val(values[i]) > Val(max_value)]
             violations ==
                 (IF IsNull(min_value) THEN 0 ELSE MaskSum(below))
                 + (IF IsNull(max_value) THEN 0 ELSE MaskSum(above))
         IN  Returned(add_result(self,
                 ValidationResult(<<"value_range", column>>, violations = 0,
                     IF violations # 0
                     THEN <<"Found", violations, "values outside range", min_value, max_value>>
                     ELSE <<"All values in range", min_value, max_value>>,
                     violations)))

\* a null is in no list of allowed values
check_allowed_values(self, column, allowed_values) ==
    IF column \notin self.df.columns THEN Returned(self)
    ELSE LET values == Series(self.df, column)
             invalid_mask == [i \in DOMAIN values |->
                                 IsNull(values[i]) \/ Val(values[i]) \notin allowed_values]
             invalid_count == MaskSum(invalid_mask)
         IN  Returned(add_result(self,
                 ValidationResult(<<"allowed_values", column>>, invalid_count = 0,
                     IF invalid_count # 0
                     THEN <<"Found", invalid_count, "invalid values">>
                     ELSE <<"All values in allowed list">>,
                     invalid_count)))

\* Series.astype(str) on a column of text: a null becomes the text of the null
astype_str(cell, na) == IF IsNull(cell) THEN (IF na = "None" THEN T_None ELSE T_nan) ELSE Val(cell)

AllIn(s, lo, hi, chars) == \A i \in lo .. hi : s[i] \in chars

\* ^[a-zA-Z0-9._%+-]+@[a-zA-Z0-9.-]+\.[a-zA-Z]{2,}$
email_pattern(s) ==
    \E i \in 1 .. Len(s), j \in 1 .. Len(s) :
        /\ s[i] = "@" /\ s[j] = "."
        /\ 1 < i /\ i + 1 < j /\ j + 2 <= Len(s)
        /\ AllIn(s, 1, i - 1, Letters \cup Digits \cup {".", "_", "%", "+", "-"})
        /\ AllIn(s, i + 1, j - 1, Letters \cup Digits \cup {".", "-"})
        /\ AllIn(s, j + 1, Len(s), Letters)

\* ^\+?[\d\s\-\(\)]{10,}$
phone_pattern(s) ==
    LET rest == IF s # <<>> /\ s[1] = "+" THEN Tail(s) ELSE s
    IN  Len(rest) >= 10 /\ AllIn(rest, 1, Len(rest), Digits \cup {" ", "-", "(", ")"})

\* Series.str.match(pattern, na=False) for the two patterns of the presets
str_match(s, pattern_name) ==
    IF pattern_name = "email_format" THEN email_pattern(s) ELSE phone_pattern(s)

check_regex_pattern(self, column, pattern_name) ==
    IF column \notin self.df.columns THEN Returned(self)
    ELSE LET values == Series(self.df, column)
             valid_mask == [i \in DOMAIN values |->
                               str_match(astype_str(values[i], self.df.na), pattern_name)]
             invalid_count == MaskSum([i \in DOMAIN values |-> ~valid_mask[i]])
         IN  Returned(add_result(self,
                 ValidationResult(<<"regex", column, pattern_name>>, invalid_count = 0,
                     IF invalid_count # 0
                     THEN <<"Found", invalid_count, "values not matching", pattern_name>>
                     ELSE <<"All values match", pattern_name>>,
                     invalid_count)))

check_email_format(self, column) == check_regex_pattern(self, column, "email_format")

check_phone_format(self, column) == check_regex_pattern(self, column, "phone_format")

\* the results a ValueError of assert_valid lists, none when it returns
assert_valid_listing_first(self) ==
    LET failed == Filter(self.results, [i \in 1 .. Len(self.results) |-> ~self.results[i].passed])
    IN  IF failed # <<>>
        THEN Raised(self, <<"ValueError", 1, <<repr(failed[1])>>>>)
        ELSE Returned(self)

assert_valid(self) ==
    LET failed == Filter(self.results, [i \in 1 .. Len(self.results) |-> ~self.results[i].passed])
    IN  IF failed # <<>>
        THEN Raised(self, <<"ValueError", Len(failed),
                            [i \in 1 .. Len(failed) |-> repr(failed[i])]>>)
        ELSE Returned(self)

\* DataValidator(df): a new validator
NewValidator(df) ==
    /\ dv' = [df |-> df, results |-> <<>>, op |-> "init", columns |-> <<>>, raised |-> Null]
    /\ UNCHANGED <<genVars, files, stgForeignKeys, distinctOrder, raw, stg, prod, last,
                   runnerVars, pv, twin>>

\* a method of the validator is called with the given columns
Rule(op, columns, r) ==
    /\ dv.op # "none"
    /\ Len(r.results) <= MaxResults
    /\ dv' = [dv EXCEPT !.results = r.results, !.op = op, !.columns = columns,
                        !.raised = r.raised]
    /\ UNCHANGED <<genVars, files, stgForeignKeys, distinctOrder, raw, stg, prod, last,
                   runnerVars, pv, twin>>

ColumnLists == {<<"customer_id">>, <<"email">>, <<"customer_id", "email">>}

CheckNoNulls(columns) == Rule("check_no_nulls", columns, check_no_nulls(dv, columns))
CheckUnique(columns) == Rule("check_unique", columns, check_unique(dv, columns))
CheckPrimaryKey(columns) == Rule("check_primary_key", columns, check_primary_key(dv, columns))
CheckValueRange(column, min_value, max_value) ==
    Rule("check_value_range", <<column>>, check_value_range(dv, column, min_value, max_value))
CheckAllowedValues(column, allowed_values) ==
    Rule("check_allowed_values", <<column>>, check_allowed_values(dv, column, allowed_values))
CheckEmailFormat(column) == Rule("check_email_format", <<column>>, check_email_format(dv, column))
CheckPhoneFormat(column) == Rule("check_phone_format", <<column>>, check_phone_format(dv, column))
AssertValid == Rule("assert_valid", <<>>, assert_valid(dv))

NextVal ==
    \/ \E df \in Frames : NewValidator(df)
    \/ \E columns \in ColumnLists : CheckNoNulls(columns)
    \/ \E columns \in ColumnLists : CheckUnique(columns)
    \/ \E columns \in ColumnLists : CheckPrimaryKey(columns)
    \/ \E column \in {"age", "score"} : CheckValueRange(column, Some(0), Some(120))
    \/ \E column \in {"age", "score"} : CheckAllowedValues(column, {30, 40})
    \/ \E column \in {"email", "phone"} : CheckEmailFormat(column)
    \/ \E column \in {"email", "phone"} : CheckPhoneFormat(column)
    \/ AssertValid

\* no frame has a column "score"
SpecVal == InitGen /\ [][NextVal]_vars

---------------------------------------------------------------------------
(* Claims on the DataValidator *)

RuleOps == {"check_no_nulls", "check_unique", "check_primary_key", "check_value_range",
            "check_allowed_values", "check_email_format", "check_phone_format"}

\* the step is a call of a rule whose referenced columns are all missing
RuleOnMissingColumns ==
    /\ dv'.op \in RuleOps
    /\ dv'.df = dv.df
    /\ dv'.columns # <<>>
    /\ \A c \in SeqToSet(dv'.columns) : c \notin dv.df.columns

\* C24: a rule method called on a column that the table does not have is a
\* silent no-op: it appends no ValidationResult and it raises no error
C24_MissingColumnIsSilent ==
    [][RuleOnMissingColumns => (dv'.results = dv.results /\ dv'.raised = Null)]_vars

\* the rows of the frame whose value in the column is not null and does not
\* match the pattern
NonNullMismatches(df, column, pattern_name) ==
    Cardinality({i \in 1 .. Len(df.rows) :
                    /\ ~IsNull(df.rows[i][column])
                    /\ ~str_match(Val(df.rows[i][column]), pattern_name)})

PresetOf(op) == IF op = "check_email_format" THEN "email_format" ELSE "phone_format"

\* C25: check_email_format and check_phone_format record a failed result
\* exactly when some non-null value of the column does not match the
\* pattern, and failed_rows counts the non-null values that do not match:
\* a null neither fails the rule nor is counted
C25_NullsAreNotMismatches ==
    [][(/\ dv'.op \in {"check_email_format", "check_phone_format"}
        /\ dv'.df = dv.df
        /\ dv'.columns[1] \in dv.df.columns
        /\ Len(dv'.results) = Len(dv.results) + 1)
       => LET r == dv'.results[Len(dv'.results)]
              n == NonNullMismatches(dv.df, dv'.columns[1], PresetOf(dv'.op))
          IN  r.passed = (n = 0) /\ r.failed_rows = n]_vars

FailedRules(res) == {res[i].rule_name : i \in {k \in 1 .. Len(res) : ~res[k].passed}}

\* the rule names an error of assert_valid lists
NamedRules(error) == {error[3][k][2] : k \in 1 .. Len(error[3])}

\* C26: assert_valid raises exactly when at least one accumulated result has
\* passed = false, the error names every failed rule, and it returns without
\* raising when every accumulated result passed or there is none; the
\* results stay as they were
C26_AssertValidAggregates ==
    [][dv'.op = "assert_valid"
       => /\ dv'.results = dv.results
          /\ (dv'.raised # Null) = (FailedRules(dv.results) # {})
          /\ dv'.raised # Null => /\ Val(dv'.raised)[1] = "ValueError"
                                  /\ FailedRules(dv.results) \subseteq NamedRules(Val(dv'.raised))]_vars

\* assert_valid has raised over two failed rules and one that passed
C26_Witness ==
    /\ dv.op = "assert_valid"
    /\ dv.raised # Null
    /\ Cardinality(FailedRules(dv.results)) = 2
    /\ \E i \in 1 .. Len(dv.results) : dv.results[i].passed

---------------------------------------------------------------------------
(* PipelineValidator (validate_pipeline.py).  Each validate_* method is one *)
(* step of run_all; its queries read the database of the model, and one of  *)
(* them may raise an exception, whose text str(e) may be empty.  A check is *)
(* what print_check is called with.                                         *)

T_err == <<"e", "r", "r">>

\* at most one query of a method raises: its position among the queries of
\* the method, and str(e)
NoError == [query |-> 0, message |-> <<>>]
ReadError(q, message) == [query |-> q, message |-> message]
ReadErrors(n) == {NoError} \cup {ReadError(q, message) : q \in 1 .. n, message \in {<<>>, T_err}}

Check(name, passed, details) == [name |-> name, passed |-> passed, details |-> details]

print_check(self, name, passed, details) ==
    [self EXCEPT !.total_checks = @ + 1,
                 !.passed_checks = IF passed THEN @ + 1 ELSE @,
                 !.issues = IF details # <<>> /\ ~passed
                            THEN Append(@, <<name, details>>) ELSE @]

RECURSIVE print_checks(_, _)
print_checks(self, checks) ==
    IF checks = <<>> THEN self
    ELSE print_checks(print_check(self, Head(checks).name, Head(checks).passed,
                                  Head(checks).details),
                      Tail(checks))

\* the schemas of the database, as the first query lists them
schemata == <<"prod", "raw", "staging">>

validate_schemas(db, error) ==
    IF error.query = 1 THEN <<Check("Schema validation", FALSE, error.message)>>
    ELSE LET required == <<"raw", "staging", "prod">>
         IN  [i \in 1 .. 3 |->
                 Check(<<"Schema exists", required[i]>>, required[i] \in SeqToSet(schemata),
                       <<"Schema not found. Run: make etl-setup-schema">>)]

\* expected_tables, schema by schema
expected_tables ==
    [i \in 1 .. 4 |-> <<"raw", Tables[i]>>] \o [i \in 1 .. 4 |-> <<"staging", Tables[i]>>]
    \o <<<<"prod", "daily_sales">>, <<"prod", "monthly_sales">>, <<"prod", "customer_metrics">>,
         <<"prod", "daily_category_metrics">>, <<"prod", "daily_product_metrics">>>>

validate_tables(db, error) ==
    [i \in 1 .. Len(expected_tables) |->
        LET schema == expected_tables[i][1]
            table == expected_tables[i][2]
            exists == table \in DOMAIN (IF schema = "raw" THEN db.raw
                                        ELSE IF schema = "staging" THEN db.stg ELSE db.prod)
        IN  IF error.query = i THEN Check(<<"Table", schema, table>>, FALSE, error.message)
            ELSE Check(<<"Table exists", schema, table>>, exists,
                       <<"Table not found. Run: make etl-setup-schema">>)]

\* Series.sum() of a mask over the rows of a table
CountWhere(rows, mask) == Cardinality({i \in 1 .. Len(rows) : mask[i]})

validate_data_flow(db, error) ==
    LET queries == <<db.raw["customers"], db.stg["customers"], db.prod["customer_metrics"],
                     db.raw["orders"], db.stg["orders"], db.prod["daily_sales"]>>
        counts == [q \in 1 .. 6 |-> IF error.query = q THEN 0 ELSE Len(queries[q])]
        Found(n, hint) == <<"Found", n, "rows. Run:", hint>>
        layers ==
            <<Check("Raw layer has customer data", counts[1] > 0,
                    Found(counts[1], "make etl-generate-raw-test")),
              Check("Raw layer has order data", counts[4] > 0,
                    Found(counts[4], "make etl-generate-raw-test")),
              Check("Staging layer has customer data", counts[2] > 0,
                    Found(counts[2], "make etl-run-stg")),
              Check("Staging layer has order data", counts[5] > 0,
                    Found(counts[5], "make etl-run-stg")),
              Check("Production layer has customer metrics", counts[3] > 0,
                    Found(counts[3], "make etl-run-prod")),
              Check("Production layer has daily sales", counts[6] > 0,
                    Found(counts[6], "make etl-run-prod"))>>
    IN  IF counts[1] > 0 /\ counts[2] > 0
        THEN Append(layers,
                    \* loss_pct < 20, loss_pct = (raw - staging) / raw * 100
                    Check("Data loss < 20% (raw -> staging)",
                          (counts[1] - counts[2]) * 100 < 20 * counts[1],
                          <<"Loss:", counts[1] - counts[2], counts[1]>>))
        ELSE layers

\* text LIKE '%@%.%'
like_email(s) == \E i \in 1 .. Len(s), j \in 1 .. Len(s) : i < j /\ s[i] = "@" /\ s[j] = "."

\* COUNT(*) - COUNT(DISTINCT col): the nulls are not among the distinct values
Dups(rows, col) ==
    Len(rows) - Cardinality({rows[i][col] : i \in {k \in 1 .. Len(rows) : ~IsNull(rows[k][col])}})

\* rows of the referencing table without a row of the referenced table of the
\* same key (NOT EXISTS)
Orphans(rows, col, referenced, key) ==
    CountWhere(rows, [i \in 1 .. Len(rows) |->
        ~\E j \in 1 .. Len(referenced) :
            ~IsNull(rows[i][col]) /\ referenced[j][key] = rows[i][col]])

\* the results of the eleven queries of quality_checks, in their order
quality_checks(db, today) ==
    LET c == db.stg["customers"]
        p == db.stg["products"]
        o == db.stg["orders"]
        oi == db.stg["order_items"]
    IN  <<<<"No duplicate customer_ids", Dups(c, "customer_id")>>,
          <<"No duplicate emails", Dups(c, "email")>>,
          <<"No NULL emails", CountWhere(c, [i \in 1 .. Len(c) |-> IsNull(c[i].email)])>>,
          <<"No invalid email formats",
            CountWhere(c, [i \in 1 .. Len(c) |->
                              ~IsNull(c[i].email) /\ ~like_email(Val(c[i].email))])>>,
          <<"No negative prices",
            CountWhere(p, [i \in 1 .. Len(p) |-> ~IsNull(p[i].price) /\ Val(p[i].price) < 0])>>,
          <<"No zero prices", CountWhere(p, [i \in 1 .. Len(p) |-> p[i].price = Some(0)])>>,
          <<"No orphaned orders (missing customer)", Orphans(o, "customer_id", c, "customer_id")>>,
          <<"No orphaned order_items (missing order)", Orphans(oi, "order_id", o, "order_id")>>,
          <<"No orphaned order_items (missing product)",
            Orphans(oi, "product_id", p, "product_id")>>,
          <<"No future order dates",
            CountWhere(o, [i \in 1 .. Len(o) |->
                              ~IsNull(o[i].order_date)
                              /\ DateNum(Val(o[i].order_date)) > DateNum(today)])>>,
          <<"No invalid discount percentages",
            CountWhere(oi, [i \in 1 .. Len(oi) |->
                               /\ ~IsNull(oi[i].discount_percent)
                               /\ (Val(oi[i].discount_percent) < 0
                                   \/ Val(oi[i].discount_percent) > 100)])>>>>

validate_data_quality(db, today, error) ==
    LET checks == quality_checks(db, today)
    IN  [q \in 1 .. Len(checks) |->
            IF error.query = q THEN Check(checks[q][1], FALSE, error.message)
            ELSE Check(checks[q][1], checks[q][2] = 0, <<"Found", checks[q][2], "issues">>)]

\* the orders whose total_amount is more than 0.01 away from the sum of their
\* lines (a null total_amount compares to nothing)
Mismatches(stgDb) ==
    CountWhere(stgDb["orders"], [i \in 1 .. Len(stgDb["orders"]) |->
        LET o == stgDb["orders"][i]
        IN  ~IsNull(o.total_amount)
            /\ Abs(100 * Val(o.total_amount) - ItemsTotal(stgDb, o.order_id)) > 100])

valid_segments == {"Premium", "Standard", "Basic"}

\* order_status NOT IN ('pending', 'completed', 'cancelled')
checked_statuses == {"pending", "completed", "cancelled"}

\* the result of status_query
InvalidStatuses(stgDb) ==
    CountWhere(stgDb["orders"], [i \in 1 .. Len(stgDb["orders"]) |->
        /\ ~IsNull(stgDb["orders"][i].order_status)
        /\ Val(stgDb["orders"][i].order_status) \notin checked_statuses])

validate_business_rules(db, error) ==
    LET diff == Abs(StagingRevenue(db.stg) - ProdRevenue(db.prod))
        mismatches == Mismatches(db.stg)
        c == db.stg["customers"]
        segments == CountWhere(c, [i \in 1 .. Len(c) |->
                        /\ ~IsNull(c[i].customer_segment)
                        /\ Val(c[i].customer_segment) \notin valid_segments])
        statuses == InvalidStatuses(db.stg)
    IN  <<IF error.query = 1 THEN Check("Revenue consistency", FALSE, error.message)
          ELSE Check("Revenue matches (staging vs prod)", diff < 1, <<"Difference:", diff>>),
          IF error.query = 2 THEN Check("Order amount validation", FALSE, error.message)
          ELSE Check("Order totals match item sums", mismatches = 0,
                     <<"Found", mismatches, "mismatches">>),
          IF error.query = 3 THEN Check("Customer segment validation", FALSE, error.message)
          ELSE Check("Valid customer segments only", segments = 0,
                     <<"Found", segments, "invalid segments">>),
          IF error.query = 4 THEN Check("Order status validation", FALSE, error.message)
          ELSE Check("Valid order statuses only", statuses = 0,
                     <<"Found", statuses, "invalid statuses">>)>>

\* every transform sets created_at and updated_at, so none is missing
validate_metadata(db, error) ==
    LET c == db.raw["customers"]
        partitions == Cardinality({c[i]._partition_date : i \in 1 .. Len(c)})
        missing_created == 0
        missing_updated == 0
    IN  (IF error.query = 1 THEN <<Check("Metadata validation", FALSE, error.message)>>
         ELSE <<Check("Raw layer has partition metadata", partitions > 0,
                      <<"Found", partitions, "partitions">>)>>)
        \o
        (IF error.query = 2 THEN <<Check("Timestamp validation", FALSE, error.message)>>
         ELSE <<Check("Staging has created_at timestamps", missing_created = 0,
                      <<"Missing", missing_created, "timestamps">>),
                Check("Staging has updated_at timestamps", missing_updated = 0,
                      <<"Missing", missing_updated, "timestamps">>)>>)

\* the exit code print_summary returns
print_summary(self) == IF Len(self.issues) = 0 THEN 0 ELSE 1

pipelineVars == <<stgForeignKeys, distinctOrder, raw, stg, prod, last, runnerVars>>

\* a PipelineValidator is made and run_all is entered
RunAll ==
    /\ pv.pc \in {"idle", "done"}
    /\ pv' = [NewPipelineValidator EXCEPT !.pc = "validate_schemas"]
    /\ UNCHANGED <<genVars, dv, twin, files, pipelineVars>>

\* one validate_* method of run_all: its checks go through print_check
Validate(method, checks, next) ==
    /\ pv.pc = method
    /\ pv' = [print_checks(pv, checks) EXCEPT !.pc = next]
    /\ UNCHANGED <<genVars, dv, twin, files, pipelineVars>>

Database == [raw |-> raw, stg |-> stg, prod |-> prod]

ValidateSchemas(error) ==
    Validate("validate_schemas", validate_schemas(Database, error), "validate_tables")
ValidateTables(error) ==
    Validate("validate_tables", validate_tables(Database, error), "validate_data_flow")
ValidateDataFlow(error) ==
    Validate("validate_data_flow", validate_data_flow(Database, error), "validate_data_quality")
ValidateDataQuality(today, error) ==
    Validate("validate_data_quality", validate_data_quality(Database, today, error),
             "validate_business_rules")
ValidateBusinessRules(error) ==
    Validate("validate_business_rules", validate_business_rules(Database, error),
             "validate_metadata")
ValidateMetadata(error) ==
    Validate("validate_metadata", validate_metadata(Database, error), "print_summary")

\* no validate_* method lets an exception out, so run_all comes to
\* print_summary and returns its code
PrintSummary ==
    /\ pv.pc = "print_summary"
    /\ pv' = [pv EXCEPT !.ret = Some(print_summary(pv)), !.pc = "done"]
    /\ UNCHANGED <<genVars, dv, twin, files, pipelineVars>>

\* an order that was returned, of customer 1, with its one line
Ord9 == Order(Some(9), Some(1), Some(DayOf(2)), Some("returned"), Some(959))
Item90 == OrderItem(Some(90), Some(9), Some(2), Some(1), Some(1009), Some(5))

\* customers 1 and 2; a completed and a returned order of customer 1
ReturnedDataset ==
    Dataset(Days(Parquet(<<Cust1, Cust2>>), Missing),
            Catalogue(<<Prod1, Prod2>>, <<Prod1, Prod2>>),
            Days(Missing, Parquet(<<Ord6, Ord9>>)),
            Days(Missing, Parquet(<<Item60, Item90>>)))

\* the layers are run, then the pipeline is validated; the validation is run
\* on the day of the first or of the last partition; the query that raises is
\* the first of its method, or the status query
NextValidate ==
    \/ pv.pc = "idle" /\ IngestAll(TRUE, NoFault)
    \/ pv.pc = "idle" /\ TransformAll(NoFault)
    \/ pv.pc = "idle" /\ BuildAll(NoFault)
    \/ RunAll
    \/ \E error \in ReadErrors(1) : ValidateSchemas(error)
    \/ \E error \in ReadErrors(1) : ValidateTables(error)
    \/ \E error \in ReadErrors(1) : ValidateDataFlow(error)
    \/ \E today \in {DayOf(1), DayOf(NumDays)}, error \in ReadErrors(1) :
           ValidateDataQuality(today, error)
    \/ \E error \in {NoError, ReadError(4, <<>>), ReadError(4, T_err)} :
           ValidateBusinessRules(error)
    \/ \E error \in ReadErrors(1) : ValidateMetadata(error)
    \/ PrintSummary

InitValidate ==
    /\ InitTools
    /\ InitGenerator
    /\ files \in Datasets \cup {ReturnedDataset}
    /\ stgForeignKeys = FALSE
    /\ distinctOrder = "heap"
    /\ InitPipeline

SpecValidate == InitValidate /\ [][NextValidate]_vars

---------------------------------------------------------------------------
(* Claims on the PipelineValidator *)

\* C27: run_all returns 0 exactly when every check it ran passed; whenever a
\* check was reported as failed (passed_checks < total_checks) it returns a
\* code other than 0
C27_ExitCodeFollowsChecks ==
    (pv.pc = "done" /\ pv.ret # Null)
        => ((Val(pv.ret) = 0) <=> (pv.passed_checks = pv.total_checks))

\* C28: every order that transform_orders has written to staging passes the
\* check "Valid order statuses only": the query of the check finds no order
\* of staging.orders
C28_StagedOrdersPassStatusCheck == InvalidStatuses(stg) = 0

---------------------------------------------------------------------------
(* Two runs of generate_raw_data.py, one after the other.  A pseudo-random *)
(* generator is the stream of values its seed gives and the number of      *)
(* values taken from it.  A value is 0 or 1 and every call takes one:      *)
(* random() < rate holds when the value is 0, randint and choice give the  *)
(* lower or the upper of two results.  The module random, the generator of *)
(* Faker and error_rng are three generators of the same algorithm: prng    *)
(* gives the stream of each seed.  The second run is the same script, or   *)
(* the script with another defect stream (another seed of error_rng).      *)

\* values of a stream before it repeats
StreamLen == 4
\* the base customers of a day from which on int(len * DUPLICATE_NAME_RATE)
\* is 1 (25 in the program)
DuplicateFrom == 2

RANDOM_SEED == 42

Seeds == {RANDOM_SEED, RANDOM_SEED + 1, RANDOM_SEED + 2}
Streams == [1 .. StreamLen -> 0 .. 1]

Rng(stream) == [stream |-> stream, taken |-> 0]

\* the value the call after k more calls gives (k = 0: the next call)
peek(rng, k) == rng.stream[((rng.taken + k) % Len(rng.stream)) + 1]

\* the generator after n calls
advance(rng, n) == [rng EXCEPT !.taken = (@ + n) % Len(rng.stream)]

\* a generator that takes its stream from the run it is made in
seeded_by_run(prng, seed, run) == Rng(prng[RANDOM_SEED + run])

\* random.seed(seed), Faker.seed(seed), random.Random(seed), in whichever run
seeded(prng, seed, run) == Rng(prng[seed])

\* fake.email() at the call after k more calls
email_at(fake, k) == IF peek(fake, k) = 0 THEN T_ab_co ELSE T_c_d_io

\* the calls of fake.email() for one row: the first one and the retries
RECURSIVE email_calls(_, _, _)
email_calls(emails, emails_used, attempt) ==
    IF emails[attempt + 1] \in emails_used /\ attempt < MaxAttempts
    THEN email_calls(emails, emails_used, attempt + 1)
    ELSE attempt + 1

\* the draws of introduce_errors_customer and how many they are: the one for
\* the lower case is made only when the name is not None
errors_of(error_rng, named) ==
    LET k == IF named THEN 1 ELSE 0
    IN  [draw |-> ErrorDraw(named /\ peek(error_rng, 0) = 0, peek(error_rng, k) = 0,
                            peek(error_rng, k + 1) = 0),
         taken |-> k + 2]

\* the loop over the base customers, from round i on; w is the frame being
\* made and the three generators
RECURSIVE base_rows(_, _, _, _, _)
base_rows(w, i, num_customers, day, start_customer_id) ==
    IF i = num_customers THEN w
    ELSE LET emails == [a \in 1 .. (MaxAttempts + 1) |-> email_at(w.fake, a - 1)]
             calls == email_calls(emails, w.batch.emails_used, 0)
             fallback == emails[calls] \in w.batch.emails_used
             null_name == peek(w.error_rng, 0) = 0
             errors == errors_of(advance(w.error_rng, 1), ~null_name)
             draw == [emails |-> emails, null_name |-> null_name, errors |-> errors.draw]
         IN  base_rows(
                 [batch |-> add_base(w.batch, i, day, start_customer_id, draw),
                  \* random.choice(CUSTOMER_SEGMENTS)
                  random |-> advance(w.random, 1),
                  \* fake.email() and its retries, user_name and domain_name
                  \* of the fallback, fake.name() unless the name is null,
                  \* fake.country()
                  fake |-> advance(w.fake, calls + (IF fallback THEN 2 ELSE 0)
                                           + (IF null_name THEN 0 ELSE 1) + 1),
                  error_rng |-> advance(w.error_rng, 1 + errors.taken)],
                 i + 1, num_customers, day, start_customer_id)

\* the loop over the duplicate people, from round i on
RECURSIVE duplicate_rows(_, _, _, _, _)
duplicate_rows(w, i, num_duplicates, day, next_id) ==
    IF i = num_duplicates THEN w
    ELSE LET pick == 1 + (peek(w.random, 0) % Len(w.batch.customers))
             emails == [a \in 1 .. (MaxAttempts + 1) |-> email_at(w.fake, a - 1)]
             calls == email_calls(emails, w.batch.emails_used, 0)
             fallback == emails[calls] \in w.batch.emails_used
             errors == errors_of(w.error_rng, TRUE)
             draw == [pick |-> pick, emails |-> emails, number |-> 1000 + peek(w.random, 1),
                      errors |-> errors.draw]
         IN  IF IsNull(w.batch.customers[pick].customer_name)
             THEN duplicate_rows([w EXCEPT !.random = advance(@, 1)],
                                 i + 1, num_duplicates, day, next_id)
             ELSE duplicate_rows(
                      [batch |-> add_duplicate(w.batch, i, day, next_id, draw),
                       \* random.choice(customers), random.randint of the fallback
                       random |-> advance(w.random, 1 + (IF fallback THEN 1 ELSE 0)),
                       fake |-> advance(w.fake, calls + (IF fallback THEN 2 ELSE 0)),
                       error_rng |-> advance(w.error_rng, errors.taken)],
                      i + 1, num_duplicates, day, next_id)

\* generate_customers_for_day in the run g: the frame and the generators
\* after it; one or two base customers
customers_of_day(g) ==
    LET num_customers == 1 + peek(g.random, 0)
        based == base_rows([batch |-> Batch(<<>>, g.all_emails, {}),
                            random |-> advance(g.random, 1), fake |-> g.fake,
                            error_rng |-> g.error_rng],
                           0, num_customers, DayOf(g.day), g.current_customer_id)
        num_duplicates == IF Len(based.batch.customers) >= DuplicateFrom THEN 1 ELSE 0
    IN  IF num_duplicates > 0
        THEN duplicate_rows(based, 0, num_duplicates, DayOf(g.day),
                            g.current_customer_id + Len(based.batch.customers))
        ELSE based

\* the draws of n orders and the generator after them: the customer, the
\* status, one or two lines, and product, quantity and discount of each line
RECURSIVE order_draws(_, _)
order_draws(rng, n) ==
    IF n = 0 THEN [draws |-> <<>>, random |-> rng]
    ELSE LET num_items == 1 + peek(rng, 2)
             line(j) == [product |-> 1 + peek(rng, 3 * j),
                         quantity |-> 1 + peek(rng, 3 * j + 1),
                         discount |-> 5 * peek(rng, 3 * j + 2)]
             draw == [pick_last |-> peek(rng, 0) = 1,
                      status |-> IF peek(rng, 1) = 0 THEN "completed" ELSE "pending",
                      lines |-> [j \in 1 .. num_items |-> line(j)]]
             rest == order_draws(advance(rng, 3 + 3 * num_items), n - 1)
         IN  [draws |-> <<draw>> \o rest.draws, random |-> rest.random]

\* a run that has not begun
NotStarted ==
    [run |-> 0, day |-> 0, failed |-> FALSE, random |-> Rng(<<0>>), fake |-> Rng(<<0>>),
     error_rng |-> Rng(<<0>>), all_emails |-> {}, all_customer_ids |-> <<>>,
     current_customer_id |-> 1, current_order_id |-> 1, files |-> NoFiles]

\* the import of the script and generate_all_data up to its loop: the seeds
\* are set, error_rng is made, and the catalogue takes three values of random
\* and one of fake for each product, and one of error_rng for its defect
start_run(prng, error_seed, run) ==
    [NotStarted EXCEPT
        !.run = run, !.day = 1,
        !.random = advance(seeded(prng, RANDOM_SEED, run), 3 * Len(products_df)),
        !.fake = advance(seeded(prng, RANDOM_SEED, run), Len(products_df)),
        !.error_rng = advance(seeded(prng, error_seed, run), Len(products_df))]

\* the body of the loop of generate_all_data for the day the run g is at; one
\* or two orders, none repeated: int(len * 0.04) is 0
generate_day(g) ==
    LET w == customers_of_day(g)
        df == w.batch.customers
        ids == g.all_customer_ids \o new_ids(df)
        ordered == ids # <<>> /\ g.day >= 2
        num_orders == 1 + peek(w.random, 0)
        drawn == order_draws(advance(w.random, 1), num_orders)
        made == generate_orders_for_day(DayOf(g.day), g.current_order_id, ids, products_df,
                                        drawn.draws, 0, 0)
        saved == [g.files EXCEPT !.customers[g.day] = Parquet(df),
                                 !.products[g.day] = Parquet(products_df)]
    IN  IF ~assertions_hold(df)
        THEN [g EXCEPT !.failed = TRUE, !.random = w.random, !.fake = w.fake,
                       !.error_rng = w.error_rng]
        ELSE [g EXCEPT
                 !.day = @ + 1,
                 !.random = IF ordered THEN drawn.random ELSE w.random,
                 !.fake = w.fake,
                 !.error_rng = w.error_rng,
                 !.all_emails = @ \cup new_emails(df),
                 !.all_customer_ids = ids,
                 !.current_customer_id = @ + Len(df),
                 !.current_order_id = IF ordered THEN @ + Len(made.orders) ELSE @,
                 !.files = IF ordered
                           THEN [saved EXCEPT !.orders[g.day] = Parquet(made.orders),
                                              !.order_items[g.day] = Parquet(made.order_items)]
                           ELSE saved]

Finished(g) == g.failed \/ g.day = TestDays + 1

\* the script is started; the second run begins when the first has ended
StartRun(r) ==
    /\ twin.runs[r].day = 0
    /\ r = 2 => Finished(twin.runs[1])
    /\ twin' = [twin EXCEPT !.runs[r] = start_run(twin.prng, twin.error_seed[r], r)]
    /\ UNCHANGED <<genVars, dv, pv, files, pipelineVars>>

\* one day of the loop of generate_all_data in run r
GenerateDay(r) ==
    /\ twin.runs[r].day \in GenKeys
    /\ ~twin.runs[r].failed
    /\ twin' = [twin EXCEPT !.runs[r] = generate_day(@)]
    /\ UNCHANGED <<genVars, dv, pv, files, pipelineVars>>

\* whatever streams the algorithm gives for the seeds
Twins ==
    {[prng |-> prng, error_seed |-> <<RANDOM_SEED + 1, seed>>,
      runs |-> <<NotStarted, NotStarted>>] :
        prng \in [Seeds -> Streams], seed \in {RANDOM_SEED + 1, RANDOM_SEED + 2}}

InitTwice ==
    /\ dv = NoValidator
    /\ pv = NewPipelineValidator
    /\ twin \in Twins
    /\ InitGenerator
    /\ files = NoFiles
    /\ stgForeignKeys = FALSE
    /\ distinctOrder = "heap"
    /\ InitPipeline

NextTwice ==
    \/ \E r \in 1 .. 2 : StartRun(r)
    \/ \E r \in 1 .. 2 : GenerateDay(r)

SpecTwice == InitTwice /\ [][NextTwice]_vars

---------------------------------------------------------------------------
(* Claims on two runs of the generator *)

BothFinished == Finished(twin.runs[1]) /\ Finished(twin.runs[2])

Structure(fs) ==
    [k \in GenKeys |->
        [customers |-> [i \in 1 .. Len(fs["customers"][k].rows) |->
                           fs["customers"][k].rows[i].customer_id],
         orders |-> [i \in 1 .. Len(fs["orders"][k].rows) |->
                        LET o == fs["orders"][k].rows[i]
                        IN  <<o.order_id, o.customer_id, o.total_amount>>],
         order_items |-> [i \in 1 .. Len(fs["order_items"][k].rows) |->
                             LET oi == fs["order_items"][k].rows[i]
                             IN  <<oi.order_item_id, oi.order_id, oi.product_id,
                                   oi.quantity, oi.unit_price, oi.discount_percent>>]]]

\* C23: the structural values of a run do not depend on the defect stream:
\* two runs that differ in the draws of the defect stream only write the
\* same row counts, ids, foreign keys, quantities and amounts
C23_StructureIgnoresDefects ==
    BothFinished => Structure(twin.runs[1].files) = Structure(twin.runs[2].files)

=============================================================================
